---- MODULE Spec2Model ----
(***************************************************************************)
(* A state-machine model of the query handler of go-claude-agent-sdk       *)
(* (src/query_handler.go) and of the line transport it drives.             *)
(*                                                                         *)
(* Every goroutine of the source is a process of the model: the handler's  *)
(* reader (readMessages), each caller of sendControlRequest, each          *)
(* dispatcher (handleControlRequest), the stream forwarder (streamInput),  *)
(* the thread that calls close(), the transport's reader and the consumer  *)
(* of the message channel.  A Go select with several ready cases is a      *)
(* nondeterministic choice between them; a timer may fire at any moment.   *)
(***************************************************************************)
EXTENDS Integers, Sequences, FiniteSets, TLC

\* ------------------------------------------------------------------ bounds
MaxInbound == 2        \* envelopes the transport decodes in one run
MsgChanCap == 1        \* modelled capacity of queryHandler.msgChan
MaxInput == 1          \* user messages offered on the stream-input channel
MaxCloses == 2         \* calls of close() in one run

\* --------------------------------------------------------------- constants
Callers == {"c1", "c2"}                   \* goroutines calling sendControlRequest
RandHex == {"a"}                          \* values of the 4 random bytes
\* the control request each caller issues
SubtypeOf == [c \in Callers |-> IF c = "c1" THEN "initialize" ELSE "interrupt"]
InboundSubtypes == {"can_use_tool", "hook_callback", "mcp_message", "bogus"}
ConvTypes == {"assistant", "result"}      \* conversation-message types
TransportErrors == {"process_error"}      \* terminal errors of the transport

NoErr == "none"
NoId == <<0, "none">>
NoReq == ""
ErrClosed == "query handler closed"
ErrCtx == "context canceled"
ErrNotReady == "transport not ready"
ErrExited == "process exited with error"
ErrStdin == "failed to write to stdin"
ErrAgent == "agent error"

VARIABLES
    \* ---- subprocessTransport
    tMsgs,          \* t.msgChan: decoded envelopes not yet taken by the handler
    tMsgsClosed,    \* t.msgChan closed
    tErrs,          \* t.errChan (capacity 1)
    tErrsClosed,    \* t.errChan closed
    exitErr,        \* t.exitErr, read through LastError()
    ready,          \* t.ready
    stdinOpen,      \* t.stdin != nil
    tpc,            \* position of the transport's reader goroutine
    stdin,          \* every line written to the child's stdin, in order
    endInputs,      \* number of times the child's stdin was closed by EndInput
    decoded,        \* every envelope the transport decoded, in order
    \* ---- queryHandler
    closed,         \* q.closed
    readErr,        \* q.readErr, the terminal error cell
    pendingRequests,\* q.pendingRequests: request id -> pendingRequest
    requestCounter, \* q.requestCounter
    msgChan,        \* q.msgChan: buffered messages not yet received
    msgChanClosed,  \* q.msgChan closed
    delivered,      \* every message sent on q.msgChan, in order
    firstResult,    \* q.firstResultChan closed
    latchFires,     \* number of times firstResultChan was closed
    cancelCalled,   \* q.cancel() was called
    rpc,            \* position of the reader goroutine
    rcur,           \* the envelope the reader is handling
    rErrNil,        \* the reader's errChan was set to nil
    consumed,       \* every envelope the reader took from the transport
    \* ---- other goroutines
    call,           \* caller -> state of its sendControlRequest call
    disp,           \* inbound tag -> state of its dispatcher goroutine
    cpc,            \* position of the goroutine calling close()
    closes,         \* number of completed close() calls
    spc,            \* position of streamInput
    input,          \* user messages left on the stream-input channel
    ctxCancelled,   \* the context given to start() and streamInput() is done
    streamTimer,    \* the stream-close timer has fired
    \* ---- configuration (queryOptions)
    hasHooks, hasServers, hasCanUseTool,
    \* ---- history of the observable events the properties speak about
    hist

VARIABLES
    \* ---- one can_use_tool exchange of handleCanUseTool
    perm,           \* the request, what the callback was given, and the reply
    \* ---- one mcp_message exchange of handleMcpMessage
    mcp,            \* the request, the server that served it, and the reply
    \* ---- the hook registry filled by initialize, read by handleHookCallback
    hk,             \* q.nextCallbackID, q.hookCallbacks, and what was observed
    \* ---- one one-shot query: the goroutine of runQuery and its caller
    rq,             \* its position, its two channels, and what the caller saw
    \* ---- ClaudeClient
    cl,             \* c.transport, c.query, Connect, and the receive calls
    \* ---- subprocessTransport seen from its callers
    tp,             \* t.writeMu, the calls of Write, EndInput and Close, the pipe
    \* ---- the decoder of subprocessTransport.readMessages
    dec,            \* the child's stdout, jsonBuffer, and what was emitted
    \* ---- the calls of queryHandler.start and the readers they launch
    st,             \* q.cancel, q.wg, the readers, and the closes of q.msgChan
    \* ---- ClaudeClient under repeated Connect and Close and concurrent calls
    cc              \* c.mu, c.closed, c.transport, c.query, and what each Connect made

extVars == <<perm, mcp, hk, rq, cl, tp, dec, st, cc>>

transportVars == <<tMsgs, tMsgsClosed, tErrs, tErrsClosed, exitErr, ready,
                   stdinOpen, tpc, stdin, endInputs, decoded>>
handlerVars == <<closed, readErr, pendingRequests, requestCounter, msgChan,
                 msgChanClosed, delivered, firstResult, latchFires,
                 cancelCalled, rpc, rcur, rErrNil, consumed>>
otherVars == <<call, disp, cpc, closes, spc, input, ctxCancelled, streamTimer>>
configVars == <<hasHooks, hasServers, hasCanUseTool>>
vars == <<transportVars, handlerVars, otherVars, configVars, extVars, hist>>

\* ----------------------------------------------------------------- helpers
NoEnv == [n |-> 0, type |-> "none", rid |-> NoId, sub |-> "", req |-> NoReq]

IsControl(e) ==
    e.type \in {"control_request", "control_response", "control_cancel_request"}

IsPrefix(s, t) == Len(s) <= Len(t) /\ SubSeq(t, 1, Len(s)) = s

\* the context of the reader goroutine: derived from the context given to
\* start(), cancelled by q.cancel()
ReaderCtxDone == ctxCancelled \/ cancelCalled

\* ------------------------------------------------------------ the transport
\* subprocessTransport.setExitError: the first error is kept
SetExitError(cell, err) ==
    IF err = NoErr THEN cell ELSE IF cell = NoErr THEN err ELSE cell

\* subprocessTransport.signalError: a non-blocking send on errChan (capacity 1)
SignalError(q, err) ==
    IF err = NoErr THEN q ELSE IF Len(q) < 1 THEN Append(q, err) ELSE q

\* subprocessTransport.Write: the error it returns in the current state
WriteResult ==
    IF ~ready \/ ~stdinOpen THEN ErrNotReady
    ELSE IF exitErr # NoErr THEN ErrExited
    ELSE IF tpc # "running" THEN ErrStdin     \* the child is gone: EPIPE
    ELSE NoErr

\* subprocessTransport.Write: its effect, for the lines of one caller
WriteAll(lines) ==
    /\ stdin' = IF WriteResult = NoErr THEN stdin \o lines ELSE stdin
    /\ ready' = IF WriteResult = ErrStdin THEN FALSE ELSE ready

Write(line) == WriteAll(<<line>>)

\* subprocessTransport.EndInput
EndInput ==
    /\ stdinOpen' = FALSE
    /\ endInputs' = IF stdinOpen THEN endInputs + 1 ELSE endInputs

Line(kind, rid, req, sub, n, body) ==
    [kind |-> kind, rid |-> rid, req |-> req, sub |-> sub, n |-> n, body |-> body]

\* request ids the agent has seen on its stdin
WrittenIds == {stdin[i].rid : i \in {j \in 1..Len(stdin) : stdin[j].kind = "control_request"}}

\* the envelopes the agent may produce next
NextEnvelopes ==
    LET n == Len(decoded) + 1 IN
       {[n |-> n, type |-> t, rid |-> NoId, sub |-> "", req |-> NoReq] :
            t \in ConvTypes \cup {"control_cancel_request"}}
  \cup {[n |-> n, type |-> "control_response", rid |-> id, sub |-> s, req |-> NoReq] :
            id \in WrittenIds, s \in {"success", "error"}}
  \cup {[n |-> n, type |-> "control_response", rid |-> NoId, sub |-> "success", req |-> NoReq]}
  \cup {[n |-> n, type |-> "control_request", rid |-> NoId, sub |-> s, req |-> r] :
            s \in InboundSubtypes, r \in {"p1", NoReq}}

\* readMessages of the transport decodes one more object and queues it
TransportDecode(e) ==
    /\ tpc = "running"
    /\ Len(decoded) < MaxInbound
    /\ e \in NextEnvelopes
    /\ tMsgs' = Append(tMsgs, e)
    /\ decoded' = Append(decoded, e)
    /\ UNCHANGED <<tMsgsClosed, tErrs, tErrsClosed, exitErr, ready, stdinOpen,
                   tpc, stdin, endInputs>>
    /\ UNCHANGED <<handlerVars, otherVars, configVars, extVars, hist>>

\* readMessages of the transport leaves its loop: with a decode/process error
\* (stored, then signalled) or after a clean exit of the child
TransportExit(err) ==
    /\ tpc = "running"
    /\ exitErr' = SetExitError(exitErr, err)
    /\ tErrs' = SignalError(tErrs, exitErr')
    /\ tpc' = "signalled"
    /\ UNCHANGED <<tMsgs, tMsgsClosed, tErrsClosed, ready, stdinOpen, stdin,
                   endInputs, decoded>>
    /\ UNCHANGED <<handlerVars, otherVars, configVars, extVars, hist>>

\* deferred calls that close the messages channel first
TransportCloseMsgsFirst ==
    /\ tpc = "signalled"
    /\ tMsgsClosed' = TRUE
    /\ tpc' = "errclosed"
    /\ UNCHANGED <<tMsgs, tErrsClosed, tErrs, exitErr, ready, stdinOpen, stdin,
                   endInputs, decoded>>
    /\ UNCHANGED <<handlerVars, otherVars, configVars, extVars, hist>>

\* the deferred close(t.errChan) runs first
TransportCloseErrs ==
    /\ tpc = "signalled"
    /\ tErrsClosed' = TRUE
    /\ tpc' = "errclosed"
    /\ UNCHANGED <<tMsgs, tMsgsClosed, tErrs, exitErr, ready, stdinOpen, stdin,
                   endInputs, decoded>>
    /\ UNCHANGED <<handlerVars, otherVars, configVars, extVars, hist>>

\* the deferred close(t.msgChan) runs last
TransportCloseMsgs ==
    /\ tpc = "errclosed"
    /\ tMsgsClosed' = TRUE
    /\ tpc' = "exited"
    /\ UNCHANGED <<tMsgs, tErrs, tErrsClosed, exitErr, ready, stdinOpen, stdin,
                   endInputs, decoded>>
    /\ UNCHANGED <<handlerVars, otherVars, configVars, extVars, hist>>

\* ------------------------------------------------------- the handler's cells
\* a setReadError that stores nothing
SetReadErrorDropped(cell, err) == cell

\* queryHandler.setReadError: write-once
SetReadError(cell, err) ==
    IF err = NoErr THEN cell ELSE IF cell = NoErr THEN err ELSE cell

\* a failPendingRequests that stores the error without closing done
FailPendingRequestsNoSignal(pr, err) ==
    IF err = NoErr THEN pr
    ELSE [id \in DOMAIN pr |-> [pr[id] EXCEPT !.err = IF @ = NoErr THEN err ELSE @]]

\* queryHandler.failPendingRequests
FailPendingRequests(pr, err) ==
    IF err = NoErr THEN pr
    ELSE [id \in DOMAIN pr |->
            [pr[id] EXCEPT !.err = IF @ = NoErr THEN err ELSE @, !.done = TRUE]]

\* a control_response case that completes some pending request, whatever its id
AcceptResponseAnyId(pr, e) ==
    IF e.rid = NoId \/ DOMAIN pr = {} THEN pr
    ELSE LET id == CHOOSE x \in DOMAIN pr : \A y \in DOMAIN pr : x[1] <= y[1] IN
           [pr EXCEPT ![id] = [@ EXCEPT !.result = e, !.done = TRUE]]

\* a control_response case that keeps a record for an id it does not know
AcceptResponseKeepsUnknown(pr, e) ==
    IF e.rid = NoId THEN pr
    ELSE [x \in DOMAIN pr \cup {e.rid} |->
            IF x = e.rid
            THEN [done |-> TRUE, result |-> e, err |-> ""]
            ELSE pr[x]]

\* the control_response case of readMessages
AcceptResponse(pr, e) ==
    IF e.rid = NoId THEN pr                      \* no response / no request_id
    ELSE IF e.rid \in DOMAIN pr
         THEN [pr EXCEPT ![e.rid] =
                 IF e.sub = "error"
                 THEN [@ EXCEPT !.err = ErrAgent, !.done = TRUE]
                 ELSE [@ EXCEPT !.result = e, !.done = TRUE]]
         ELSE pr

\* a Delete that leaves the record in the table
DeleteKept(pr, id) == pr

\* sync.Map Store and Delete
Store(pr, id, rec) == [x \in DOMAIN pr \cup {id} |-> IF x = id THEN rec ELSE pr[x]]
Delete(pr, id) == [x \in DOMAIN pr \ {id} |-> pr[x]]

\* the synthetic envelope of pushErrorMessage
ErrorEnvelope(err) ==
    [n |-> 0, type |-> "error", rid |-> NoId, sub |-> err, req |-> NoReq]

\* the reader returns: the deferred close(q.msgChan) and wg.Done()
ReaderReturn ==
    /\ msgChanClosed' = TRUE
    /\ rpc' = "done"
    /\ rcur' = NoEnv

\* the three terminal steps: setReadError, failPendingRequests, then
\* pushErrorMessage (which may block, so it is a step of its own)
ReaderFail(err, pushPc) ==
    /\ readErr' = SetReadError(readErr, err)
    /\ pendingRequests' = FailPendingRequests(pendingRequests, err)
    /\ rpc' = pushPc
    /\ rcur' = ErrorEnvelope(err)

\* ------------------------------------------------------------ readMessages
\* start(): the reader goroutine is launched
Start ==
    /\ rpc = "unstarted"
    /\ rpc' = "select"
    /\ UNCHANGED <<closed, readErr, pendingRequests, requestCounter, msgChan,
                   msgChanClosed, delivered, firstResult, latchFires,
                   cancelCalled, rcur, rErrNil, consumed>>
    /\ UNCHANGED <<transportVars, otherVars, configVars, extVars, hist>>

\* case <-ctx.Done()
ReaderCtxCase ==
    /\ rpc = "select"
    /\ ReaderCtxDone
    /\ IF ~closed
       THEN /\ ReaderFail(ErrCtx, "pushbg")
            /\ UNCHANGED msgChanClosed
       ELSE /\ ReaderReturn
            /\ UNCHANGED <<readErr, pendingRequests>>
    /\ UNCHANGED <<closed, requestCounter, msgChan, delivered, firstResult,
                   latchFires, cancelCalled, rErrNil, consumed>>
    /\ UNCHANGED <<transportVars, otherVars, configVars, extVars, hist>>

\* case err, ok := <-errChan, with an error queued
ReaderErrCase ==
    /\ rpc = "select"
    /\ ~rErrNil
    /\ tErrs # <<>>
    /\ tErrs' = Tail(tErrs)
    /\ ReaderFail(Head(tErrs), "push")
    /\ hist' = [hist EXCEPT !.errRead = Head(tErrs),
                            !.failedByErr = {id \in DOMAIN pendingRequests :
                                               ~pendingRequests[id].done}]
    /\ UNCHANGED <<closed, requestCounter, msgChan, msgChanClosed, delivered,
                   firstResult, latchFires, cancelCalled, rErrNil, consumed>>
    /\ UNCHANGED <<tMsgs, tMsgsClosed, tErrsClosed, exitErr, ready, stdinOpen,
                   tpc, stdin, endInputs, decoded>>
    /\ UNCHANGED <<otherVars, configVars, extVars>>

\* case err, ok := <-errChan, on the closed channel: errChan = nil
ReaderErrClosedCase ==
    /\ rpc = "select"
    /\ ~rErrNil
    /\ tErrs = <<>>
    /\ tErrsClosed
    /\ rErrNil' = TRUE
    /\ UNCHANGED <<closed, readErr, pendingRequests, requestCounter, msgChan,
                   msgChanClosed, delivered, firstResult, latchFires,
                   cancelCalled, rpc, rcur, consumed>>
    /\ UNCHANGED <<transportVars, otherVars, configVars, extVars, hist>>

\* case msg, ok := <-q.transport.Messages(), with a message queued
ReaderRecvCase ==
    /\ rpc = "select"
    /\ tMsgs # <<>>
    /\ tMsgs' = Tail(tMsgs)
    /\ rcur' = Head(tMsgs)
    /\ consumed' = Append(consumed, Head(tMsgs))
    /\ rpc' = "got"
    /\ UNCHANGED <<closed, readErr, pendingRequests, requestCounter, msgChan,
                   msgChanClosed, delivered, firstResult, latchFires,
                   cancelCalled, rErrNil>>
    /\ UNCHANGED <<tMsgsClosed, tErrs, tErrsClosed, exitErr, ready, stdinOpen,
                   tpc, stdin, endInputs, decoded>>
    /\ UNCHANGED <<otherVars, configVars, extVars, hist>>

\* case msg, ok := <-q.transport.Messages(), on the closed channel
ReaderMsgsClosedCase ==
    /\ rpc = "select"
    /\ tMsgs = <<>>
    /\ tMsgsClosed
    /\ IF exitErr # NoErr
       THEN /\ ReaderFail(exitErr, "push")
            /\ UNCHANGED msgChanClosed
       ELSE /\ ReaderReturn
            /\ UNCHANGED <<readErr, pendingRequests>>
    /\ UNCHANGED <<closed, requestCounter, msgChan, delivered, firstResult,
                   latchFires, cancelCalled, rErrNil, consumed>>
    /\ UNCHANGED <<transportVars, otherVars, configVars, extVars, hist>>

\* if q.closed.Load() { return }
ReaderClosedCheck ==
    /\ rpc = "got"
    /\ IF closed
       THEN ReaderReturn
       ELSE /\ rpc' = "handle"
            /\ UNCHANGED <<rcur, msgChanClosed>>
    /\ UNCHANGED <<closed, readErr, pendingRequests, requestCounter, msgChan,
                   delivered, firstResult, latchFires, cancelCalled, rErrNil,
                   consumed>>
    /\ UNCHANGED <<transportVars, otherVars, configVars, extVars, hist>>

\* a switch without the control_cancel_request case
ClassifyNoCancelCase(e) ==
    IF e.type \in {"control_response", "control_request"} THEN e.type ELSE "default"

\* the switch on msg["type"]: the case the reader takes
Classify(e) ==
    IF e.type \in {"control_response", "control_request", "control_cancel_request"}
    THEN e.type
    ELSE "default"

\* case "control_response"
ReaderResponse ==
    /\ rpc = "handle"
    /\ Classify(rcur) = "control_response"
    /\ pendingRequests' = AcceptResponse(pendingRequests, rcur)
    /\ rpc' = "select"
    /\ rcur' = NoEnv
    /\ hist' = IF rcur.rid # NoId /\ rcur.rid \notin DOMAIN pendingRequests
               THEN [hist EXCEPT !.stale = @ \cup {rcur.rid}]
               ELSE hist
    /\ UNCHANGED <<closed, readErr, requestCounter, msgChan, msgChanClosed,
                   delivered, firstResult, latchFires, cancelCalled, rErrNil,
                   consumed>>
    /\ UNCHANGED <<transportVars, otherVars, configVars, extVars>>

\* a control_request case that calls handleControlRequest itself: the reader
\* is in the callback until it returns
ReaderRequestInline ==
    /\ rpc = "handle"
    /\ Classify(rcur) = "control_request"
    /\ disp' = [disp EXCEPT ![rcur.n] =
                    [pc |-> "running", env |-> rcur, wrote |-> FALSE]]
    /\ rpc' = "inline"
    /\ UNCHANGED rcur
    /\ UNCHANGED <<closed, readErr, pendingRequests, requestCounter, msgChan,
                   msgChanClosed, delivered, firstResult, latchFires,
                   cancelCalled, rErrNil, consumed>>
    /\ UNCHANGED <<call, cpc, closes, spc, input, ctxCancelled, streamTimer>>
    /\ UNCHANGED <<transportVars, configVars, extVars, hist>>

\* case "control_request": go q.handleControlRequest(ctx, msg)
ReaderRequest ==
    /\ rpc = "handle"
    /\ Classify(rcur) = "control_request"
    /\ disp' = [disp EXCEPT ![rcur.n] =
                    [pc |-> "running", env |-> rcur, wrote |-> FALSE]]
    /\ rpc' = "select"
    /\ rcur' = NoEnv
    /\ UNCHANGED <<closed, readErr, pendingRequests, requestCounter, msgChan,
                   msgChanClosed, delivered, firstResult, latchFires,
                   cancelCalled, rErrNil, consumed>>
    /\ UNCHANGED <<call, cpc, closes, spc, input, ctxCancelled, streamTimer>>
    /\ UNCHANGED <<transportVars, configVars, extVars, hist>>

\* case "control_cancel_request": continue
ReaderCancelRequest ==
    /\ rpc = "handle"
    /\ Classify(rcur) = "control_cancel_request"
    /\ rpc' = "select"
    /\ rcur' = NoEnv
    /\ UNCHANGED <<closed, readErr, pendingRequests, requestCounter, msgChan,
                   msgChanClosed, delivered, firstResult, latchFires,
                   cancelCalled, rErrNil, consumed>>
    /\ UNCHANGED <<transportVars, otherVars, configVars, extVars, hist>>

\* default: the first-result latch, then the send on q.msgChan is attempted
ReaderDefault ==
    /\ rpc = "handle"
    /\ Classify(rcur) = "default"
    /\ firstResult' = (firstResult \/ rcur.type = "result")
    /\ latchFires' = IF rcur.type = "result" /\ ~firstResult
                     THEN latchFires + 1 ELSE latchFires
    /\ rpc' = "send"
    /\ UNCHANGED <<closed, readErr, pendingRequests, requestCounter, msgChan,
                   msgChanClosed, delivered, cancelCalled, rcur, rErrNil,
                   consumed>>
    /\ UNCHANGED <<transportVars, otherVars, configVars, extVars, hist>>

\* select { case q.msgChan <- msg: ... }, also inside pushErrorMessage
ReaderSend ==
    /\ rpc \in {"send", "push", "pushbg"}
    /\ Len(msgChan) < MsgChanCap
    /\ msgChan' = Append(msgChan, rcur)
    /\ delivered' = Append(delivered, rcur)
    /\ IF rpc = "send"
       THEN /\ rpc' = "select"
            /\ rcur' = NoEnv
            /\ UNCHANGED msgChanClosed
       ELSE ReaderReturn
    /\ UNCHANGED <<closed, readErr, pendingRequests, requestCounter,
                   firstResult, latchFires, cancelCalled, rErrNil, consumed>>
    /\ UNCHANGED <<transportVars, otherVars, configVars, extVars, hist>>

\* select { ... case <-ctx.Done(): }: the message in hand is dropped
\* (pushErrorMessage under context.Background() has no such case)
ReaderSendCtx ==
    /\ rpc \in {"send", "push"}
    /\ ReaderCtxDone
    /\ ReaderReturn
    /\ UNCHANGED <<closed, readErr, pendingRequests, requestCounter, msgChan,
                   delivered, firstResult, latchFires, cancelCalled, rErrNil,
                   consumed>>
    /\ UNCHANGED <<transportVars, otherVars, configVars, extVars, hist>>

\* the facade's consumer receives one message from receiveMessages()
Receive ==
    /\ msgChan # <<>>
    /\ msgChan' = Tail(msgChan)
    /\ UNCHANGED <<closed, readErr, pendingRequests, requestCounter,
                   msgChanClosed, delivered, firstResult, latchFires,
                   cancelCalled, rpc, rcur, rErrNil, consumed>>
    /\ UNCHANGED <<transportVars, otherVars, configVars, extVars, hist>>

\* the context given to start() is cancelled by the host
CancelCtx ==
    /\ ~ctxCancelled
    /\ ctxCancelled' = TRUE
    /\ UNCHANGED <<call, disp, cpc, closes, spc, input, streamTimer>>
    /\ UNCHANGED <<transportVars, handlerVars, configVars, extVars, hist>>

\* ------------------------------------------------------ sendControlRequest
IdleCall == [pc |-> "idle", id |-> NoId, sub |-> "", out |-> "none",
             err |-> NoErr, body |-> NoEnv, afterClose |-> FALSE, after |-> {}]

NewPending == [done |-> FALSE, result |-> NoEnv, err |-> NoErr]

\* a request id made of the random part alone
RequestIDRandomOnly(counter, hex) == <<0, hex>>

\* requestID := fmt.Sprintf("req_%d_%s", counter, hex)
RequestID(counter, hex) == <<counter, hex>>

\* what the call returns: the outcome kind, the error and the response body
Returned(c, out, err, body) ==
    [call EXCEPT ![c].pc = "done", ![c].out = out, ![c].err = err,
                 ![c].body = body]

\* if err := q.err(); err != nil { return nil, err }
CallPrecheck(c, sub) ==
    /\ call[c].pc = "idle"
    /\ rpc # "unstarted"
    /\ IF readErr # NoErr
       THEN call' = [Returned(c, "terminal", readErr, NoEnv) EXCEPT
                        ![c].sub = sub, ![c].afterClose = (closes > 0),
                        ![c].after = {d \in Callers : call[d].pc = "done"}]
       ELSE call' = [call EXCEPT ![c].pc = "pre", ![c].sub = sub,
                                 ![c].afterClose = (closes > 0),
                                 ![c].after = {d \in Callers : call[d].pc = "done"}]
    /\ UNCHANGED <<disp, cpc, closes, spc, input, ctxCancelled, streamTimer>>
    /\ UNCHANGED <<transportVars, handlerVars, configVars, extVars, hist>>

\* the request id is generated and the pending record is stored
CallRegister(c, hex) ==
    /\ call[c].pc = "pre"
    /\ requestCounter' = requestCounter + 1
    /\ LET id == RequestID(requestCounter', hex) IN
         /\ pendingRequests' = Store(pendingRequests, id, NewPending)
         /\ call' = [call EXCEPT ![c].pc = "reg", ![c].id = id]
    /\ UNCHANGED <<closed, readErr, msgChan, msgChanClosed, delivered,
                   firstResult, latchFires, cancelCalled, rpc, rcur, rErrNil,
                   consumed>>
    /\ UNCHANGED <<disp, cpc, closes, spc, input, ctxCancelled, streamTimer>>
    /\ UNCHANGED <<transportVars, configVars, extVars, hist>>

\* the control_request line is written; on a write error the call returns
\* (the deferred Delete removes the pending record)
CallWrite(c) ==
    /\ call[c].pc = "reg"
    /\ Write(Line("control_request", call[c].id, NoReq, call[c].sub, 0, "request"))
    /\ IF WriteResult # NoErr
       THEN /\ call' = Returned(c, "write_error", WriteResult, NoEnv)
            /\ pendingRequests' = Delete(pendingRequests, call[c].id)
       ELSE /\ call' = [call EXCEPT ![c].pc = "wait"]
            /\ UNCHANGED pendingRequests
    /\ UNCHANGED <<closed, readErr, requestCounter, msgChan, msgChanClosed,
                   delivered, firstResult, latchFires, cancelCalled, rpc, rcur,
                   rErrNil, consumed>>
    /\ UNCHANGED <<tMsgs, tMsgsClosed, tErrs, tErrsClosed, exitErr, stdinOpen,
                   tpc, endInputs, decoded>>
    /\ UNCHANGED <<disp, cpc, closes, spc, input, ctxCancelled, streamTimer>>
    /\ UNCHANGED <<configVars, extVars, hist>>

\* case <-pending.done
CallDone(c) ==
    /\ call[c].pc = "wait"
    /\ pendingRequests[call[c].id].done
    /\ LET p == pendingRequests[call[c].id] IN
         call' = IF p.err # NoErr
                 THEN Returned(c, IF p.err = ErrAgent THEN "agent_error"
                                  ELSE "terminal", p.err, NoEnv)
                 ELSE Returned(c, "success", NoErr, p.result)
    /\ pendingRequests' = Delete(pendingRequests, call[c].id)
    /\ UNCHANGED <<closed, readErr, requestCounter, msgChan, msgChanClosed,
                   delivered, firstResult, latchFires, cancelCalled, rpc, rcur,
                   rErrNil, consumed>>
    /\ UNCHANGED <<disp, cpc, closes, spc, input, ctxCancelled, streamTimer>>
    /\ UNCHANGED <<transportVars, configVars, extVars, hist>>

\* a timeout error that does not name the subtype
TimeoutErrorNoSubtype(sub) == "control request timeout"

\* the error of the timeout case: it names the request's subtype
TimeoutError(sub) == "control request timeout: " \o sub

\* case <-timer.C
CallTimeout(c) ==
    /\ call[c].pc = "wait"
    /\ call' = Returned(c, "timeout", TimeoutError(call[c].sub), NoEnv)
    /\ pendingRequests' = Delete(pendingRequests, call[c].id)
    /\ UNCHANGED <<closed, readErr, requestCounter, msgChan, msgChanClosed,
                   delivered, firstResult, latchFires, cancelCalled, rpc, rcur,
                   rErrNil, consumed>>
    /\ UNCHANGED <<disp, cpc, closes, spc, input, ctxCancelled, streamTimer>>
    /\ UNCHANGED <<transportVars, configVars, extVars, hist>>

\* case <-ctx.Done(): the caller's own context is cancelled
CallCancel(c) ==
    /\ call[c].pc = "wait"
    /\ call' = Returned(c, "cancelled", ErrCtx, NoEnv)
    /\ pendingRequests' = Delete(pendingRequests, call[c].id)
    /\ UNCHANGED <<closed, readErr, requestCounter, msgChan, msgChanClosed,
                   delivered, firstResult, latchFires, cancelCalled, rpc, rcur,
                   rErrNil, consumed>>
    /\ UNCHANGED <<disp, cpc, closes, spc, input, ctxCancelled, streamTimer>>
    /\ UNCHANGED <<transportVars, configVars, extVars, hist>>

\* ---------------------------------------------------- handleControlRequest
\* a dispatcher that accepts a subtype it does not know
DispatchResultAcceptsUnknown(e, cb) ==
    IF e.sub \in {"can_use_tool", "hook_callback", "mcp_message"} /\ cb = "err"
    THEN <<"error", "callback error">>
    ELSE <<"success", "{}">>

\* the dispatcher's result for a request: <<"success", body>> or <<"error", text>>;
\* cb is what the host callback did ("ok" or "err"); for mcp_message "err"
\* is a request without server_name or message
DispatchResult(e, cb) ==
    CASE e.sub = "can_use_tool" ->
            IF ~hasCanUseTool THEN <<"error", "canUseTool callback is not provided">>
            ELSE IF cb = "err" THEN <<"error", "callback error">>
            ELSE <<"success", "permission">>
      [] e.sub = "hook_callback" ->
            IF ~hasHooks THEN <<"error", "no hook callback found">>
            ELSE IF cb = "err" THEN <<"error", "callback error">>
            ELSE <<"success", "hook_output">>
      [] e.sub = "mcp_message" ->
            IF cb = "err"
            THEN <<"error", "missing server_name or message for MCP request">>
            ELSE <<"success", "mcp_response">>
      [] OTHER -> <<"error", "unsupported control request subtype">>

\* a handler that answers only when the dispatcher succeeded
ResponseLinesOnSuccess(e, res) ==
    IF e.req = NoReq \/ res[1] = "error" THEN <<>>
    ELSE <<Line("control_response", NoId, e.req, res[1], e.n, res[2])>>

\* the lines handleControlRequest writes for a request
ResponseLines(e, res) ==
    IF e.req = NoReq THEN <<>>       \* request == nil || requestID == ""
    ELSE <<Line("control_response", NoId, e.req, res[1], e.n, res[2])>>

\* the dispatcher runs the callback and writes its control_response
Dispatch(n, cb) ==
    /\ disp[n].pc = "running"
    /\ LET lines == ResponseLines(disp[n].env, DispatchResult(disp[n].env, cb)) IN
         /\ IF lines = <<>>
            THEN UNCHANGED <<stdin, ready>>
            ELSE WriteAll(lines)
         /\ disp' = [disp EXCEPT ![n].pc = "done",
                        ![n].wrote = (disp[n].env.req # NoReq /\ WriteResult = NoErr)]
    /\ UNCHANGED <<tMsgs, tMsgsClosed, tErrs, tErrsClosed, exitErr, stdinOpen,
                   tpc, endInputs, decoded>>
    /\ UNCHANGED <<call, cpc, closes, spc, input, ctxCancelled, streamTimer>>
    /\ UNCHANGED <<handlerVars, configVars, extVars, hist>>

\* ------------------------------------------------------------------ close()
\* q.closed.Store(true)
CloseMark ==
    /\ cpc = "idle"
    /\ closes < MaxCloses
    /\ closed' = TRUE
    /\ cpc' = "marked"
    /\ UNCHANGED <<readErr, pendingRequests, requestCounter, msgChan,
                   msgChanClosed, delivered, firstResult, latchFires,
                   cancelCalled, rpc, rcur, rErrNil, consumed>>
    /\ UNCHANGED <<call, disp, closes, spc, input, ctxCancelled, streamTimer>>
    /\ UNCHANGED <<transportVars, configVars, extVars, hist>>

\* q.failPendingRequests(...); if q.cancel != nil { q.cancel() }
CloseFail ==
    /\ cpc = "marked"
    /\ pendingRequests' = FailPendingRequests(pendingRequests, ErrClosed)
    /\ cancelCalled' = (cancelCalled \/ rpc # "unstarted")
    /\ cpc' = "wait"
    /\ hist' = [hist EXCEPT !.atClose = {id \in DOMAIN pendingRequests :
                                            ~pendingRequests[id].done}]
    /\ UNCHANGED <<closed, readErr, requestCounter, msgChan, msgChanClosed,
                   delivered, firstResult, latchFires, rpc, rcur, rErrNil,
                   consumed>>
    /\ UNCHANGED <<call, disp, closes, spc, input, ctxCancelled, streamTimer>>
    /\ UNCHANGED <<transportVars, configVars, extVars>>

\* subprocessTransport.Close
TransportClose ==
    /\ ready' = FALSE
    /\ stdinOpen' = FALSE

\* q.wg.Wait(); q.transport.Close()
CloseJoin ==
    /\ cpc = "wait"
    /\ rpc \in {"unstarted", "done"}
    /\ TransportClose
    /\ cpc' = "idle"
    /\ closes' = closes + 1
    /\ UNCHANGED <<tMsgs, tMsgsClosed, tErrs, tErrsClosed, exitErr, tpc, stdin,
                   endInputs, decoded>>
    /\ UNCHANGED <<call, disp, spc, input, ctxCancelled, streamTimer>>
    /\ UNCHANGED <<handlerVars, configVars, extVars, hist>>

\* -------------------------------------------------------------- streamInput
\* a condition that looks at the hooks only
MustWaitForHooksOnly(hooks, servers) == hooks

\* len(q.sdkMcpServers) > 0 || hasHooks
MustWaitForResult(hooks, servers) == servers \/ hooks

\* go q.streamInput(ctx, input)
StreamStart ==
    /\ spc = "unstarted"
    /\ rpc # "unstarted"
    /\ spc' = "loop"
    /\ UNCHANGED <<call, disp, cpc, closes, input, ctxCancelled, streamTimer>>
    /\ UNCHANGED <<transportVars, handlerVars, configVars, extVars, hist>>

\* case <-ctx.Done(): return
StreamCtxCase ==
    /\ spc = "loop"
    /\ ctxCancelled
    /\ spc' = "done"
    /\ UNCHANGED <<call, disp, cpc, closes, input, ctxCancelled, streamTimer>>
    /\ UNCHANGED <<transportVars, handlerVars, configVars, extVars, hist>>

\* case msg, ok := <-messages with a message: forwarded unless closed
StreamForward ==
    /\ spc = "loop"
    /\ input > 0
    /\ input' = input - 1
    /\ IF closed
       THEN /\ spc' = "done"
            /\ UNCHANGED <<stdin, ready>>
       ELSE /\ Write(Line("user", NoId, NoReq, "", input, "user"))
            /\ UNCHANGED spc
    /\ UNCHANGED <<tMsgs, tMsgsClosed, tErrs, tErrsClosed, exitErr, stdinOpen,
                   tpc, endInputs, decoded>>
    /\ UNCHANGED <<call, disp, cpc, closes, ctxCancelled, streamTimer>>
    /\ UNCHANGED <<handlerVars, configVars, extVars, hist>>

\* _ = q.transport.EndInput(); return
StreamEndInput(why) ==
    /\ EndInput
    /\ spc' = "done"
    /\ hist' = [hist EXCEPT !.streamEnds = Append(@, why)]
    /\ UNCHANGED <<tMsgs, tMsgsClosed, tErrs, tErrsClosed, exitErr, ready, tpc,
                   stdin, decoded>>
    /\ UNCHANGED <<call, disp, cpc, closes, input, ctxCancelled>>
    /\ UNCHANGED <<handlerVars, configVars, extVars>>

\* case msg, ok := <-messages on the closed channel
StreamInputClosed ==
    /\ spc = "loop"
    /\ input = 0
    /\ IF MustWaitForResult(hasHooks, hasServers)
       THEN /\ spc' = "wait"
            /\ UNCHANGED <<transportVars, handlerVars, configVars, extVars, hist, call,
                           disp, cpc, closes, input, ctxCancelled, streamTimer>>
       ELSE /\ StreamEndInput("direct")
            /\ UNCHANGED streamTimer

\* case <-q.firstResultChan
StreamWaitResult ==
    /\ spc = "wait"
    /\ firstResult
    /\ StreamEndInput("result")
    /\ UNCHANGED streamTimer

\* case <-time.After(streamCloseTimeout)
StreamWaitTimeout ==
    /\ spc = "wait"
    /\ streamTimer' = TRUE
    /\ StreamEndInput("timeout")

\* case <-ctx.Done()
StreamWaitCtx ==
    /\ spc = "wait"
    /\ ctxCancelled
    /\ StreamEndInput("ctx")
    /\ UNCHANGED streamTimer

\* ---------------------------------------------------------- handleCanUseTool
\* Values of the Go maps and slices that matter to the reply: a nil map, an
\* empty map, and maps with content.
NilMap == "nil"
EmptyMap == "{}"
ToolNames == {"Bash", "Read"}
RequestInputs == {NilMap, EmptyMap, "{command}"}         \* request["input"]
ReplacementInputs == {NilMap, EmptyMap, "{replaced}"}    \* r.UpdatedInput
PermissionLists == {[set |-> FALSE, items |-> <<>>],      \* nil slice
                    [set |-> TRUE, items |-> <<>>],
                    [set |-> TRUE, items |-> <<"addRules">>]}
DenyMessages == {"", "not allowed"}

\* what the callback may return: (result, err)
PermissionResults ==
       {[kind |-> "allow", updatedInput |-> u, updatedPermissions |-> ps,
         message |-> "", interrupt |-> FALSE] :
            u \in ReplacementInputs, ps \in PermissionLists}
  \cup {[kind |-> "deny", updatedInput |-> NilMap,
         updatedPermissions |-> [set |-> FALSE, items |-> <<>>],
         message |-> m, interrupt |-> i] : m \in DenyMessages, i \in BOOLEAN}
  \cup {[kind |-> k, updatedInput |-> NilMap,
         updatedPermissions |-> [set |-> FALSE, items |-> <<>>],
         message |-> "callback failed", interrupt |-> FALSE] :
            k \in {"error", "other"}}

\* the inbound can_use_tool requests
PermissionRequests ==
    {[tool |-> t, input |-> i, suggestions |-> g] :
        t \in ToolNames, i \in RequestInputs, g \in {<<>>, <<"suggested">>}}

NoPerm == [pc |-> "none"]

\* a request that has arrived and is not answered yet
AskedPerm(request) ==
    [pc |-> "asked", request |-> request, called |-> FALSE,
     args |-> [tool |-> "", input |-> NilMap, suggestions |-> <<>>],
     result |-> [kind |-> "none"],
     reply |-> <<"none", "">>]

\* PermissionUpdate.ToDict, element by element
ToDicts(items) == [i \in 1..Len(items) |-> <<"dict", items[i]>>]

\* input, _ := request["input"].(map[string]any); if input == nil { input = {} }
EffectiveInput(request) ==
    IF request.input = NilMap THEN EmptyMap ELSE request.input

\* the arguments the callback is invoked with
CallbackArgs(request) ==
    [tool |-> request.tool, input |-> EffectiveInput(request),
     suggestions |-> request.suggestions]

\* an allow body that always echoes the request's input
AllowBodyEchoesRequest(request, r) ==
    [behavior |-> "allow", updatedInput |-> EffectiveInput(request),
     updatedPermissions |-> IF r.updatedPermissions.set
                            THEN [set |-> TRUE, items |-> ToDicts(r.updatedPermissions.items)]
                            ELSE [set |-> FALSE, items |-> <<>>]]

\* case *PermissionResultAllow
AllowBody(request, r) ==
    [behavior |-> "allow",
     updatedInput |-> IF r.updatedInput # NilMap THEN r.updatedInput
                      ELSE EffectiveInput(request),
     updatedPermissions |-> IF r.updatedPermissions.set
                            THEN [set |-> TRUE, items |-> ToDicts(r.updatedPermissions.items)]
                            ELSE [set |-> FALSE, items |-> <<>>]]

\* case *PermissionResultDeny: "interrupt" is a key of the map only when set
DenyBody(r) ==
    [behavior |-> "deny", message |-> r.message,
     interrupt |-> IF r.interrupt THEN "true" ELSE "absent"]

\* handleCanUseTool: <<"success", body>> or <<"error", text>>
HandleCanUseTool(hasCallback, request, r) ==
    IF ~hasCallback THEN <<"error", "canUseTool callback is not provided">>
    ELSE CASE r.kind = "error" -> <<"error", r.message>>
           [] r.kind = "allow" -> <<"success", AllowBody(request, r)>>
           [] r.kind = "deny" -> <<"success", DenyBody(r)>>
           [] OTHER -> <<"error", "unexpected permission result type">>

\* the handler answers one can_use_tool request, the callback returning r
PermissionExchange(r) ==
    /\ perm.pc = "asked"
    /\ perm' = [perm EXCEPT
                  !.pc = "answered",
                  !.called = hasCanUseTool,
                  !.args = IF hasCanUseTool THEN CallbackArgs(perm.request)
                           ELSE @,
                  !.result = IF hasCanUseTool THEN r ELSE @,
                  !.reply = HandleCanUseTool(hasCanUseTool, perm.request, r)]
    /\ UNCHANGED <<transportVars, handlerVars, otherVars, configVars, hist>>
    /\ UNCHANGED <<mcp, hk, rq, cl, tp, dec, st, cc>>

\* ---------------------------------------------------------- handleMcpMessage
MethodNotFound == -32601                  \* JSON-RPC "not found"
InternalError == -32603                   \* JSON-RPC "handler error"

\* q.sdkMcpServers: the in-process servers, each with its tools
SdkMcpServers == IF hasServers THEN {"calc"} ELSE {}
ToolsOf(server) == IF server = "calc" THEN {"add"} ELSE {}

\* request["server_name"]; "" when the key is absent or not a string
McpServerNames == {"", "calc", "nonexistent"}
McpMethods == {"initialize", "tools/list", "tools/call",
               "notifications/initialized", "resources/list"}
McpIds == {"null", "1", "req-7"}          \* message["id"]; null when absent
McpToolNames == {"add", "missing"}        \* params["name"]
\* what a tool's handler returns: a result, a result flagged is_error, an error
ToolOutcomes == {"ok", "is_error", "err"}

\* request["message"]: absent, or a JSON-RPC request
McpMessages ==
       {[present |-> FALSE, method |-> "", id |-> "null", tool |-> ""]}
  \cup {[present |-> TRUE, method |-> m, id |-> i, tool |-> t] :
            m \in McpMethods, i \in McpIds, t \in McpToolNames}

McpRequests ==
    {[server |-> n, message |-> m] : n \in McpServerNames, m \in McpMessages}

\* a JSON-RPC response; id is "absent" when the map has no "id" key; keys
\* are the keys of the map
RpcKeys(id, member) ==
    {"jsonrpc", member} \cup (IF id = "absent" THEN {} ELSE {"id"})
RpcResult(id, result) ==
    [jsonrpc |-> "2.0", id |-> id, has |-> "result", result |-> result,
     code |-> 0, message |-> <<>>, keys |-> RpcKeys(id, "result")]
RpcError(id, code, message) ==
    [jsonrpc |-> "2.0", id |-> id, has |-> "error", result |-> <<>>,
     code |-> code, message |-> message, keys |-> RpcKeys(id, "error")]
NoRpc == [jsonrpc |-> "none"]

\* a HandleCallTool that reports a failed handler as a result
HandleCallToolSwallowsError(server, id, name, outcome) ==
    IF name \notin ToolsOf(server)
    THEN RpcError(id, MethodNotFound, <<"Tool '", name, "' not found">>)
    ELSE RpcResult(id, <<"content", name>>)

\* McpServer.HandleCallTool
HandleCallTool(server, id, name, outcome) ==
    IF name \notin ToolsOf(server)
    THEN RpcError(id, MethodNotFound, <<"Tool '", name, "' not found">>)
    ELSE CASE outcome = "err" -> RpcError(id, InternalError, <<"tool failed">>)
           [] outcome = "is_error" -> RpcResult(id, <<"content", name, "is_error">>)
           [] OTHER -> RpcResult(id, <<"content", name>>)

\* McpServer.HandleRequest
HandleRequest(server, message, outcome) ==
    CASE message.method = "initialize" ->
            RpcResult(message.id, <<"serverInfo", server>>)
      [] message.method = "tools/list" ->
            RpcResult(message.id, <<"tools", ToolsOf(server)>>)
      [] message.method = "tools/call" ->
            HandleCallTool(server, message.id, message.tool, outcome)
      [] message.method = "notifications/initialized" ->
            RpcResult("absent", <<>>)
      [] OTHER ->
            RpcError(message.id, MethodNotFound,
                     <<"Method '", message.method, "' not found">>)

NoMcp == [pc |-> "none"]

\* a request that has arrived and is not answered yet
AskedMcp(request) ==
    [pc |-> "asked", request |-> request, served |-> "", answer |-> NoRpc,
     called |-> "none", reply |-> <<"none", "">>]

\* a handler that refuses a request for a server it does not know
HandleMcpMessageRejectsUnknown(servers, request, outcome) ==
    IF request.server = "" \/ ~request.message.present \/ request.server \notin servers
    THEN <<"error", "missing server_name or message for MCP request">>
    ELSE <<"success",
           [mcp_response |-> HandleRequest(request.server, request.message, outcome)]>>

\* handleMcpMessage: <<"success", body>> or <<"error", text>>
HandleMcpMessage(servers, request, outcome) ==
    IF request.server = "" \/ ~request.message.present
    THEN <<"error", "missing server_name or message for MCP request">>
    ELSE IF request.server \notin servers
    THEN <<"success",
           [mcp_response |-> RpcError(request.message.id, MethodNotFound,
                                      <<"Server '", request.server, "' not found">>)]>>
    ELSE <<"success",
           [mcp_response |-> HandleRequest(request.server, request.message, outcome)]>>

\* the handler answers one mcp_message request; the tool's handler, when it
\* is called, ends with outcome
McpExchange(outcome) ==
    /\ mcp.pc = "asked"
    /\ LET q == mcp.request
           delegated == q.server # "" /\ q.message.present
                        /\ q.server \in SdkMcpServers IN
       mcp' = [mcp EXCEPT
                 !.pc = "answered",
                 !.served = IF delegated THEN q.server ELSE @,
                 !.called = IF /\ delegated /\ q.message.method = "tools/call"
                               /\ q.message.tool \in ToolsOf(q.server)
                            THEN outcome ELSE @,
                 !.answer = IF delegated
                            THEN HandleRequest(q.server, q.message, outcome)
                            ELSE @,
                 !.reply = HandleMcpMessage(SdkMcpServers, q, outcome)]
    /\ UNCHANGED <<transportVars, handlerVars, otherVars, configVars, hist>>
    /\ UNCHANGED <<perm, hk, rq, cl, tp, dec, st, cc>>

\* --------------------------------------- initialize and handleHookCallback
HookEvents == {"PreToolUse", "Stop"}
HostCallbacks == {"cbA", "cbB", "cbC"}

\* q.hooks: event -> matchers, a matcher being the list of its callbacks
HookConfigs ==
    { [e \in HookEvents |-> <<>>],
      [e \in HookEvents |-> IF e = "Stop" THEN <<>> ELSE << <<"cbA", "cbB">> >>],
      [e \in HookEvents |-> IF e = "Stop" THEN << <<"cbA">>, <<"cbC">> >>
                                          ELSE << <<"cbB">> >>] }

\* "for event, matchers := range q.hooks": a Go map is ranged in any order
EventOrders ==
    {o \in [1..Cardinality(HookEvents) -> HookEvents] :
        \A i, j \in DOMAIN o : i # j => o[i] # o[j]}

RECURSIVE MatcherHooks(_, _, _)
\* the callbacks of the matchers i.. of one event, in the order of the loops
MatcherHooks(event, matchers, i) ==
    IF i > Len(matchers) THEN <<>>
    ELSE [k \in 1..Len(matchers[i]) |->
              [event |-> event, matcher |-> i, callback |-> matchers[i][k]]]
         \o MatcherHooks(event, matchers, i + 1)

RECURSIVE HooksInOrder(_, _, _)
\* every callback of the configuration, in the order initialize meets them
HooksInOrder(config, order, i) ==
    IF i > Len(order) THEN <<>>
    ELSE MatcherHooks(order[i], config[order[i]], 1)
         \o HooksInOrder(config, order, i + 1)

\* fmt.Sprintf("hook_%d", n)
CallbackID(n) == <<"hook_", n>>
\* request["callback_id"]: ids the handler may have issued, and others
InboundCallbackIDs == {CallbackID(n) : n \in 0..3} \cup {<<"", 0>>, <<"hook", 0>>}

\* what a host callback returns: (nil, nil), (output, nil), (nil, err)
HookOutcomes == {"nil", "output", "err"}

NoLookup == [id |-> <<"", 0>>, invoked |-> "none", reply |-> <<"none", "">>,
             registered |-> FALSE, raced |-> FALSE]

\* the handler as newQueryHandler leaves it: an empty registry, counter 0
NewHooks(config) ==
    [pc |-> "idle", config |-> config, todo |-> <<>>,
     nextCallbackID |-> 0, hookCallbacks |-> <<>>,
     assigning |-> <<"", 0>>,
     requestIds |-> <<>>, written |-> FALSE, registryAtWrite |-> {},
     last |-> NoLookup, fatal |-> FALSE]

NoHooks == NewHooks([e \in HookEvents |-> <<>>])

\* initialize is entered: the loops are about to run over q.hooks
InitializeBegin ==
    /\ hk.pc = "idle" /\ ~hk.fatal
    /\ \E order \in EventOrders :
          hk' = [hk EXCEPT !.pc = "registering",
                           !.todo = HooksInOrder(hk.config, order, 1)]
    /\ UNCHANGED <<transportVars, handlerVars, otherVars, configVars, hist>>
    /\ UNCHANGED <<perm, mcp, rq, cl, tp, dec, st, cc>>

\* callbackID := fmt.Sprintf("hook_%d", q.nextCallbackID); q.nextCallbackID++
\* and the assignment q.hookCallbacks[callbackID] = callback begins
RegisterBegin ==
    /\ hk.pc = "registering" /\ ~hk.fatal /\ hk.todo # <<>>
    /\ hk' = [hk EXCEPT !.pc = "assigning",
                        !.assigning = CallbackID(hk.nextCallbackID),
                        !.nextCallbackID = @ + 1]
    /\ UNCHANGED <<transportVars, handlerVars, otherVars, configVars, hist>>
    /\ UNCHANGED <<perm, mcp, rq, cl, tp, dec, st, cc>>

\* q.hookCallbacks[callbackID] = callback
Put(registry, id, callback) ==
    [x \in DOMAIN registry \cup {id} |->
        IF x = id THEN callback ELSE registry[x]]

\* the assignment is done; callbackIDs[i] = callbackID
RegisterEnd ==
    /\ hk.pc = "assigning" /\ ~hk.fatal
    /\ hk' = [hk EXCEPT
                 !.pc = "registering",
                 !.hookCallbacks = Put(@, hk.assigning, Head(hk.todo).callback),
                 !.requestIds = Append(@, hk.assigning),
                 !.todo = Tail(@)]
    /\ UNCHANGED <<transportVars, handlerVars, otherVars, configVars, hist>>
    /\ UNCHANGED <<perm, mcp, rq, cl, tp, dec, st, cc>>

\* the loops are over: the initialize request, carrying the ids, is handed
\* to sendControlRequest and written
InitializeWrite ==
    /\ hk.pc = "registering" /\ ~hk.fatal /\ hk.todo = <<>>
    /\ hk' = [hk EXCEPT !.pc = "written", !.written = TRUE,
                        !.registryAtWrite = DOMAIN hk.hookCallbacks]
    /\ UNCHANGED <<transportVars, handlerVars, otherVars, configVars, hist>>
    /\ UNCHANGED <<perm, mcp, rq, cl, tp, dec, st, cc>>

\* handleHookCallback on a registry that no goroutine is writing
HandleHookCallback(registry, id, outcome) ==
    IF id \notin DOMAIN registry
    THEN [invoked |-> "none", reply |-> <<"error", "no hook callback found for ID">>]
    ELSE [invoked |-> registry[id],
          reply |-> CASE outcome = "err" -> <<"error", "callback failed">>
                      [] outcome = "nil" -> <<"success", EmptyMap>>
                      [] OTHER -> <<"success", "{output}">>]

\* an inbound hook_callback is handled by its dispatcher goroutine while the
\* registry is not being written
HookLookup(id, outcome) ==
    /\ hk.pc # "assigning" /\ ~hk.fatal
    /\ LET h == HandleHookCallback(hk.hookCallbacks, id, outcome) IN
       hk' = [hk EXCEPT !.last = [id |-> id, invoked |-> h.invoked,
                                  reply |-> h.reply,
                                  registered |-> id \in DOMAIN hk.hookCallbacks,
                                  raced |-> FALSE]]
    /\ UNCHANGED <<transportVars, handlerVars, otherVars, configVars, hist>>
    /\ UNCHANGED <<perm, mcp, rq, cl, tp, dec, st, cc>>

\* the same lookup while initialize is inside the map assignment: the two
\* goroutines share q.hookCallbacks without a lock.  The read sees the map
\* before the assignment, or after it, or the runtime stops the process
\* ("concurrent map read and map write").
HookLookupRaced(id, outcome) ==
    /\ hk.pc = "assigning" /\ ~hk.fatal
    /\ \/ \E registry \in {hk.hookCallbacks,
                            Put(hk.hookCallbacks, hk.assigning, Head(hk.todo).callback)} :
            LET h == HandleHookCallback(registry, id, outcome) IN
            hk' = [hk EXCEPT !.last = [id |-> id, invoked |-> h.invoked,
                                       reply |-> h.reply,
                                       registered |-> id \in DOMAIN registry,
                                       raced |-> TRUE]]
       \/ hk' = [hk EXCEPT !.fatal = TRUE,
                           !.last = [id |-> id, invoked |-> "none",
                                     reply |-> <<"fatal", "">>,
                                     registered |-> id \in DOMAIN hk.hookCallbacks,
                                     raced |-> TRUE]]
    /\ UNCHANGED <<transportVars, handlerVars, otherVars, configVars, hist>>
    /\ UNCHANGED <<perm, mcp, rq, cl, tp, dec, st, cc>>

\* ---------------------------------------------------------------- runQuery
OutChanCap == 1        \* modelled capacity of the messages channel of runQuery

ErrStreamingRequired ==
    "can_use_tool callback requires streaming input; use QueryStream instead of Query"
ErrPromptToolConflict ==
    "can_use_tool callback cannot be used with permission_prompt_tool_name"
ErrConnect == "failed to start Claude Code"
ErrParse == "message parse error"
ErrUnknownTransport == "unknown transport error"

NoQuery == [pc |-> "none"]

\* runQuery(ctx, prompt, input, opts...): mode is "prompt" for Query and
\* "stream" for QueryStream; promptTool is PermissionPromptToolName != ""
NewQuery(mode, promptTool) ==
    [pc |-> "begin", mode |-> mode, promptTool |-> promptTool,
     connected |-> FALSE, hadError |-> FALSE, cur |-> NoEnv,
     out |-> <<>>, outClosed |-> FALSE,        \* msgChan of runQuery
     errs |-> <<>>, errsClosed |-> FALSE,      \* errChan of runQuery
     sentErrs |-> <<>>,                        \* every error sent on errChan
     forwarded |-> <<>>,                       \* every message sent on msgChan
     got |-> <<>>, observed |-> "unread"]      \* what the caller received

\* a producer that reports nothing
ErrSendDropped(r, err, pc) == [r EXCEPT !.pc = pc, !.hadError = TRUE]

\* errChan <- err, on a channel of capacity 1, followed by the jump to pc; a
\* send on a full channel blocks the goroutine
ErrSend(r, err, pc) ==
    IF Len(r.errs) < 1
    THEN [r EXCEPT !.errs = Append(@, err), !.sentErrs = Append(@, err),
                   !.pc = pc, !.hadError = TRUE]
    ELSE [r EXCEPT !.pc = "blocked"]

RqUnchangedHandler ==
    /\ UNCHANGED <<transportVars, handlerVars, otherVars, configVars, hist>>
    /\ UNCHANGED <<perm, mcp, hk, cl, tp, dec, st, cc>>

\* a query that goes on to the transport whatever its options
RqConfigureUnchecked ==
    /\ rq.pc = "begin"
    /\ rq' = [rq EXCEPT !.pc = "connect"]
    /\ RqUnchangedHandler

\* the checks on the options that precede the transport
RqConfigure ==
    /\ rq.pc = "begin"
    /\ rq' = IF hasCanUseTool /\ rq.mode = "prompt"
             THEN ErrSend(rq, ErrStreamingRequired, "closeErrs")
             ELSE IF hasCanUseTool /\ rq.promptTool
             THEN ErrSend(rq, ErrPromptToolConflict, "closeErrs")
             ELSE [rq EXCEPT !.pc = "connect"]
    /\ RqUnchangedHandler

\* t := newSubprocessTransport(options); t.Connect(ctx)
RqConnect(ok) ==
    /\ rq.pc = "connect"
    /\ rq' = IF ok THEN [rq EXCEPT !.pc = "start", !.connected = TRUE]
             ELSE ErrSend(rq, ErrConnect, "closeErrs")
    /\ RqUnchangedHandler

\* q.start(ctx)
RqStart == rq.pc = "start" /\ Start

\* q.initialize(ctx), a call of sendControlRequest
RqInitialize ==
    /\ rq.pc = "start"
    /\ \/ CallPrecheck("c1", "initialize")
       \/ \E hex \in RandHex : CallRegister("c1", hex)
       \/ CallWrite("c1")
       \/ CallDone("c1")

\* initialize has returned
RqInitialized ==
    /\ rq.pc = "start"
    /\ call["c1"].pc = "done"
    /\ rq' = IF call["c1"].out # "success"
             THEN ErrSend(rq, call["c1"].err, "closing")
             ELSE [rq EXCEPT !.pc = IF rq.mode = "prompt" THEN "write" ELSE "loop"]
    /\ RqUnchangedHandler

\* t.Write(string(data) + "\n")
RqWritePrompt ==
    /\ rq.pc = "write"
    /\ Write(Line("user", NoId, NoReq, "", 0, "prompt"))
    /\ rq' = IF WriteResult # NoErr THEN ErrSend(rq, WriteResult, "closing")
             ELSE [rq EXCEPT !.pc = "endInput"]
    /\ UNCHANGED <<tMsgs, tMsgsClosed, tErrs, tErrsClosed, exitErr, stdinOpen,
                   tpc, endInputs, decoded>>
    /\ UNCHANGED <<handlerVars, otherVars, configVars, hist>>
    /\ UNCHANGED <<perm, mcp, hk, cl, tp, dec, st, cc>>

\* _ = t.EndInput()
RqEndInput ==
    /\ rq.pc = "endInput"
    /\ EndInput
    /\ rq' = [rq EXCEPT !.pc = "loop"]
    /\ UNCHANGED <<tMsgs, tMsgsClosed, tErrs, tErrsClosed, exitErr, ready,
                   tpc, stdin, decoded>>
    /\ UNCHANGED <<handlerVars, otherVars, configVars, hist>>
    /\ UNCHANGED <<perm, mcp, hk, cl, tp, dec, st, cc>>

\* for rawMsg := range q.receiveMessages(): one message is taken; an error
\* envelope and a message that does not parse end the loop with an error
RqReceive(parses) ==
    /\ rq.pc = "loop"
    /\ msgChan # <<>>
    /\ msgChan' = Tail(msgChan)
    /\ LET m == Head(msgChan) IN
       rq' = IF m.type = "error"
             THEN ErrSend(rq, IF m.sub = "" THEN ErrUnknownTransport ELSE m.sub,
                          "closing")
             ELSE IF ~parses THEN ErrSend(rq, ErrParse, "closing")
             ELSE [rq EXCEPT !.pc = "forward", !.cur = m]
    /\ UNCHANGED <<closed, readErr, pendingRequests, requestCounter,
                   msgChanClosed, delivered, firstResult, latchFires,
                   cancelCalled, rpc, rcur, rErrNil, consumed>>
    /\ UNCHANGED <<transportVars, otherVars, configVars, hist>>
    /\ UNCHANGED <<perm, mcp, hk, cl, tp, dec, st, cc>>

\* the range ends: the handler's channel is closed and empty
RqLoopEnd ==
    /\ rq.pc = "loop"
    /\ msgChan = <<>> /\ msgChanClosed
    /\ rq' = IF ~rq.hadError /\ readErr # NoErr
             THEN ErrSend(rq, readErr, "closing")
             ELSE [rq EXCEPT !.pc = "closing"]
    /\ RqUnchangedHandler

\* select { case msgChan <- msg: }
RqForward ==
    /\ rq.pc = "forward"
    /\ Len(rq.out) < OutChanCap
    /\ rq' = [rq EXCEPT !.out = Append(@, rq.cur),
                        !.forwarded = Append(@, rq.cur),
                        !.cur = NoEnv, !.pc = "loop"]
    /\ RqUnchangedHandler

\* select { case <-ctx.Done(): errChan <- ctx.Err(); return }
RqForwardCtx ==
    /\ rq.pc = "forward"
    /\ ctxCancelled
    /\ rq' = [ErrSend(rq, ErrCtx, "closing") EXCEPT !.cur = NoEnv]
    /\ RqUnchangedHandler

\* the deferred q.close(), run when the handler was started
RqClose ==
    /\ rq.pc = "closing"
    /\ \/ (closes = 0 /\ CloseMark)
       \/ CloseFail
       \/ CloseJoin

\* defer close(errChan): after q.close() has returned, or at once when the
\* goroutine returned before the handler was started
RqCloseErrs ==
    /\ \/ rq.pc = "closeErrs"
       \/ rq.pc = "closing" /\ closes = 1 /\ cpc = "idle"
    /\ rq' = [rq EXCEPT !.errsClosed = TRUE, !.pc = "closeMsgs"]
    /\ RqUnchangedHandler

\* defer close(msgChan)
RqCloseMsgs ==
    /\ rq.pc = "closeMsgs"
    /\ rq' = [rq EXCEPT !.outClosed = TRUE, !.pc = "done"]
    /\ RqUnchangedHandler

\* the caller of Query receives one message
RqDrain ==
    /\ rq.pc # "none"
    /\ rq.out # <<>>
    /\ rq' = [rq EXCEPT !.out = Tail(@), !.got = Append(@, Head(rq.out))]
    /\ RqUnchangedHandler

\* the caller, having drained the messages until the channel closed, reads
\* the errors channel: an error, or nothing from the closed channel
RqReadErrors ==
    /\ rq.pc # "none"
    /\ rq.outClosed /\ rq.out = <<>>
    /\ rq.observed = "unread"
    /\ rq.errs # <<>> \/ rq.errsClosed
    /\ rq' = [rq EXCEPT !.observed = IF rq.errs # <<>> THEN Head(rq.errs) ELSE "none",
                        !.errs = IF rq.errs # <<>> THEN Tail(@) ELSE @]
    /\ RqUnchangedHandler

\* ------------------------------------------------------------- ClaudeClient
MaxReceives == 2       \* calls of ReceiveResponse / ReceiveMessages in one run
MaxOps == 1            \* calls of the other operations in one run

ErrNotConnected == "Not connected. Call Connect() first."
ErrUnknownStream == "unknown stream error"

\* the operations that test c.query and c.transport under c.mu, and those
\* that test c.query alone, without the lock
WriteOps == {"Query", "QueryWithSession", "QueryStream"}
ControlOps == {"Interrupt", "SetPermissionMode", "SetModel", "RewindFiles",
               "GetMCPStatus"}
ReceiveKinds == {"ReceiveMessages", "ReceiveResponse"}

NoRecv == [pc |-> "none", kind |-> "", connected |-> FALSE, cur |-> NoEnv,
           out |-> <<>>, outClosed |-> FALSE, taken |-> <<>>, err |-> NoErr]
NoOp == [op |-> "none", result |-> "none", connected |-> FALSE]

NoClient == [pc |-> "none"]

\* NewClient(opts...): promptTool is PermissionPromptToolName != ""
NewClient(promptTool) ==
    [pc |-> "new", promptTool |-> promptTool,
     transport |-> FALSE,          \* c.transport != nil
     query |-> FALSE,              \* c.query != nil
     last |-> NoOp,                \* the last operation and what it returned
     ops |-> 0,                    \* operations called so far
     calls |-> 0,                  \* receive calls made so far
     recv |-> NoRecv,              \* the receive call in progress, or the last
     prev |-> NoRecv,              \* the receive call before it
     takenBefore |-> <<>>]         \* what the calls before recv took

\* a Connect that has returned nil
Connected == cl.pc = "connected"

\* Connect up to the creation of the handler: the options are checked, the
\* transport is created and assigned, the child is launched, c.query assigned
ClConnect(ok) ==
    /\ cl.pc = "new"
    /\ cl' = IF hasCanUseTool /\ cl.promptTool
             THEN [cl EXCEPT !.pc = "failed"]
             ELSE IF ~ok
             THEN [cl EXCEPT !.pc = "failed", !.transport = TRUE]
             ELSE [cl EXCEPT !.pc = "starting", !.transport = TRUE, !.query = TRUE]
    /\ UNCHANGED <<transportVars, handlerVars, otherVars, configVars, hist>>
    /\ UNCHANGED <<perm, mcp, hk, rq, tp, dec, st, cc>>

\* c.query.start(ctx)
ClStart == cl.pc = "starting" /\ Start

InitializeOutcomes == {"success", "agent_error", "timeout"}

\* c.query.initialize(ctx), taken as one step with the outcomes of its
\* sendControlRequest: the request id is drawn, the request is written, and
\* the call returns the agent's answer or an error; on an error Connect
\* returns it and leaves c.transport and c.query as they are
ClInitialize(outcome) ==
    /\ cl.pc = "starting"
    /\ rpc # "unstarted"
    /\ requestCounter' = requestCounter + 1
    /\ \E hex \in RandHex :
          Write(Line("control_request", RequestID(requestCounter', hex), NoReq,
                     "initialize", 0, "request"))
    /\ cl' = [cl EXCEPT !.pc = IF outcome = "success" /\ WriteResult = NoErr
                               THEN "connected" ELSE "failed"]
    /\ UNCHANGED <<closed, readErr, pendingRequests, msgChan, msgChanClosed,
                   delivered, firstResult, latchFires, cancelCalled, rpc, rcur,
                   rErrNil, consumed>>
    /\ UNCHANGED <<tMsgs, tMsgsClosed, tErrs, tErrsClosed, exitErr, stdinOpen,
                   tpc, endInputs, decoded>>
    /\ UNCHANGED <<otherVars, configVars, hist>>
    /\ UNCHANGED <<perm, mcp, hk, rq, tp, dec, st, cc>>

\* Query, QueryWithSession, QueryStream: under c.mu, which Connect holds
\* while it runs; then the user message is written
ClWriteOp(op) ==
    /\ cl.pc \in {"new", "failed", "connected"}
    /\ cl.ops < MaxOps
    /\ IF ~cl.query \/ ~cl.transport
       THEN /\ cl' = [cl EXCEPT !.ops = @ + 1,
                                !.last = [op |-> op, result |-> ErrNotConnected,
                                          connected |-> Connected]]
            /\ UNCHANGED <<stdin, ready>>
       ELSE /\ Write(Line("user", NoId, NoReq, "", 0, op))
            /\ cl' = [cl EXCEPT !.ops = @ + 1,
                                !.last = [op |-> op, result |-> WriteResult,
                                          connected |-> Connected]]
    /\ UNCHANGED <<tMsgs, tMsgsClosed, tErrs, tErrsClosed, exitErr, stdinOpen,
                   tpc, endInputs, decoded>>
    /\ UNCHANGED <<handlerVars, otherVars, configVars, hist>>
    /\ UNCHANGED <<perm, mcp, hk, rq, tp, dec, st, cc>>

\* Interrupt, SetPermissionMode, SetModel, RewindFiles, GetMCPStatus with
\* c.query == nil
ClControlNotConnected(op) ==
    /\ cl.pc \in {"new", "failed", "connected"}
    /\ ~cl.query
    /\ cl.ops < MaxOps
    /\ cl' = [cl EXCEPT !.ops = @ + 1,
                        !.last = [op |-> op, result |-> ErrNotConnected,
                                  connected |-> Connected]]
    /\ UNCHANGED <<transportVars, handlerVars, otherVars, configVars, hist>>
    /\ UNCHANGED <<perm, mcp, hk, rq, tp, dec, st, cc>>

\* the same operations with c.query != nil: a control request of the handler
ClControl ==
    /\ cl.pc \in {"new", "failed", "connected"}
    /\ cl.query
    /\ \/ CallPrecheck("c2", SubtypeOf["c2"])
       \/ \E hex \in RandHex : CallRegister("c2", hex)
       \/ CallWrite("c2")
       \/ CallTimeout("c2")

ClUnchangedHandler ==
    /\ UNCHANGED <<transportVars, handlerVars, otherVars, configVars, hist>>
    /\ UNCHANGED <<perm, mcp, hk, rq, tp, dec, st, cc>>

\* ReceiveMessagesWithErrors / ReceiveResponseWithErrors: the channels are
\* made and the goroutine launched
ClReceiveCall(kind) ==
    /\ cl.pc \in {"new", "failed", "connected"}
    /\ cl.recv.pc \in {"none", "done"}
    /\ cl.calls < MaxReceives
    /\ cl' = [cl EXCEPT !.calls = @ + 1,
                        !.prev = cl.recv,
                        !.takenBefore = @ \o cl.recv.taken,
                        !.recv = [NoRecv EXCEPT !.pc = "check", !.kind = kind,
                                                !.connected = Connected]]
    /\ ClUnchangedHandler

\* if c.query == nil { errChan <- not connected; return }
ClReceiveCheck ==
    /\ cl.pc \in {"new", "failed", "connected"}
    /\ cl.recv.pc = "check"
    /\ cl' = IF ~cl.query
             THEN [cl EXCEPT !.recv.err = ErrNotConnected, !.recv.pc = "closing"]
             ELSE [cl EXCEPT !.recv.pc = "loop"]
    /\ ClUnchangedHandler

\* for rawMsg := range c.query.receiveMessages(): one message is taken; an
\* error envelope and a message that does not parse end the call
ClReceiveTake(parses) ==
    /\ cl.recv.pc = "loop"
    /\ msgChan # <<>>
    /\ msgChan' = Tail(msgChan)
    /\ LET m == Head(msgChan) IN
       cl' = IF m.type = "error"
             THEN [cl EXCEPT !.recv.taken = Append(@, m), !.recv.pc = "closing",
                             !.recv.err = IF m.sub = "" THEN ErrUnknownStream ELSE m.sub]
             ELSE IF ~parses
             THEN [cl EXCEPT !.recv.taken = Append(@, m), !.recv.pc = "closing",
                             !.recv.err = ErrParse]
             ELSE [cl EXCEPT !.recv.taken = Append(@, m), !.recv.pc = "forward",
                             !.recv.cur = m]
    /\ UNCHANGED <<closed, readErr, pendingRequests, requestCounter,
                   msgChanClosed, delivered, firstResult, latchFires,
                   cancelCalled, rpc, rcur, rErrNil, consumed>>
    /\ UNCHANGED <<transportVars, otherVars, configVars, hist>>
    /\ UNCHANGED <<perm, mcp, hk, rq, tp, dec, st, cc>>

\* the range ends: the handler's channel is closed and empty
ClReceiveEnd ==
    /\ cl.recv.pc = "loop"
    /\ msgChan = <<>> /\ msgChanClosed
    /\ cl' = [cl EXCEPT !.recv.err = readErr, !.recv.pc = "closing"]
    /\ ClUnchangedHandler

\* a receive call that goes on after a result
ClReceiveForwardOn ==
    /\ cl.recv.pc = "forward"
    /\ cl' = [cl EXCEPT !.recv.out = Append(@, cl.recv.cur),
                        !.recv.cur = NoEnv, !.recv.pc = "loop"]
    /\ ClUnchangedHandler

\* case msgChan <- msg (capacity 100, more than a run delivers); then, in
\* ReceiveResponse, if _, ok := msg.(*ResultMessage); ok { return }
ClReceiveForward ==
    /\ cl.recv.pc = "forward"
    /\ cl' = [cl EXCEPT !.recv.out = Append(@, cl.recv.cur),
                        !.recv.cur = NoEnv,
                        !.recv.pc = IF cl.recv.kind = "ReceiveResponse"
                                       /\ cl.recv.cur.type = "result"
                                    THEN "closing" ELSE "loop"]
    /\ ClUnchangedHandler

\* case <-ctx.Done(), the context of this call being cancelled: the message
\* in hand is dropped
ClReceiveForwardCtx ==
    /\ cl.recv.pc = "forward"
    /\ cl' = [cl EXCEPT !.recv.err = ErrCtx, !.recv.cur = NoEnv,
                        !.recv.pc = "closing"]
    /\ ClUnchangedHandler

\* defer close(errChan); defer close(msgChan)
ClReceiveClose ==
    /\ cl.recv.pc = "closing"
    /\ cl' = [cl EXCEPT !.recv.outClosed = TRUE, !.recv.pc = "done"]
    /\ ClUnchangedHandler

\* --------------------------------- the decoder of the transport's reader
MaxLines == 2          \* lines the child prints on stdout in one run
MaxLineLen == 6        \* the longest line tried
ScanCap == 4           \* capacity of the scanner's initial buffer (256 KiB, scaled)

\* t.maxBufferSize: below the scanner's initial buffer, equal to it, above it
MaxBufferSizes == {2, ScanCap, ScanCap + 1}
Chars == {"{", "}", "a", " "}             \* "a": any other byte of a line

ErrOverflow == "JSON message exceeded maximum buffer size"
ErrScan == "Failed reading JSON stream from CLI"

Rep(c, n) == [i \in 1..n |-> c]
ObjectOf(n) == <<"{">> \o Rep("a", n - 2) \o <<"}">>
OpenOf(n) == <<"{">> \o Rep("a", n - 1)

\* what the child may print as one line: every line shorter than the
\* scanner's initial buffer, and longer ones that are or begin an object
Lines ==
    UNION {[1..k -> Chars] : k \in 1..ScanCap - 1}
  \cup {ObjectOf(n) : n \in ScanCap..MaxLineLen}
  \cup {OpenOf(n) : n \in ScanCap..MaxLineLen}

\* strings.TrimSpace
TrimSpace(s) ==
    LET ix == {i \in 1..Len(s) : s[i] # " "} IN
      IF ix = {} THEN <<>>
      ELSE SubSeq(s, CHOOSE i \in ix : \A j \in ix : i <= j,
                     CHOOSE i \in ix : \A j \in ix : i >= j)

\* strings.Index(s, "{")
IndexBrace(s) ==
    LET ix == {i \in 1..Len(s) : s[i] = "{"} IN
      IF ix = {} THEN -1 ELSE (CHOOSE i \in ix : \A j \in ix : i <= j) - 1

\* s[k:]
From(s, k) == SubSeq(s, k + 1, Len(s))

Depth(s, k) ==
    Cardinality({i \in 1..k : s[i] = "{"}) - Cardinality({i \in 1..k : s[i] = "}"})

\* json.Unmarshal([]byte(s), &data) == nil for a map: the whole of s is one
\* object, its closing brace the last byte that is not white space
ParsesAsObject(s) ==
    LET t == TrimSpace(s) IN
      /\ t # <<>>
      /\ t[1] = "{" /\ t[Len(t)] = "}"
      /\ Depth(t, Len(t)) = 0
      /\ \A k \in 1..Len(t) - 1 : Depth(t, k) > 0

\* bufio.Scanner with Buffer(buf, max): a token must be shorter than the
\* larger of max and cap(buf)
ScanLimit(max) == IF max > ScanCap THEN max ELSE ScanCap
ScannerDelivers(line, max) == Len(line) < ScanLimit(max)

Fed(buf, out, obj) == [buf |-> buf, out |-> out, obj |-> obj]

\* a decoder that keeps the prelude before the first brace
FeedKeepsPrelude(buf, line, max) ==
    LET t == TrimSpace(line)
        fb == IF buf = <<>> THEN IndexBrace(t) ELSE 0
        nb == buf \o t
    IN IF t = <<>> THEN Fed(buf, "blank", <<>>)
       ELSE IF fb < 0 THEN Fed(buf, "skipped", <<>>)
       ELSE IF Len(nb) > max THEN Fed(nb, "overflow", <<>>)
       ELSE IF ParsesAsObject(nb) THEN Fed(<<>>, "emitted", nb)
       ELSE Fed(nb, "accumulated", <<>>)

\* the body of the scan loop for one line: the line is trimmed (it holds no
\* newline, so strings.Split gives it back as its one element), passed over
\* if blank, skipped if the buffer is empty and it has no brace; with an
\* empty buffer what precedes the first brace is dropped; the rest is
\* appended, the size tested, and the buffer parsed
Feed(buf, line, max) ==
    LET t == TrimSpace(line)
        fb == IF buf = <<>> THEN IndexBrace(t) ELSE 0
        j == IF fb > 0 THEN TrimSpace(From(t, fb)) ELSE t
        nb == buf \o j
    IN IF t = <<>> THEN Fed(buf, "blank", <<>>)
       ELSE IF fb < 0 THEN Fed(buf, "skipped", <<>>)
       ELSE IF Len(nb) > max THEN Fed(nb, "overflow", <<>>)
       ELSE IF ParsesAsObject(nb) THEN Fed(<<>>, "emitted", nb)
       ELSE Fed(nb, "accumulated", <<>>)

NoLine == [line |-> <<>>, buf |-> <<>>, out |-> "none"]

NoDecoder == [pc |-> "none"]

\* readMessages begins: the scanner is made, jsonBuffer := ""
NewDecoder(max) ==
    [pc |-> "scan",
     max |-> max,                  \* t.maxBufferSize
     jsonBuffer |-> <<>>,
     emitted |-> <<>>,             \* the objects sent on t.msgChan
     lines |-> 0,                  \* lines the child has printed
     skips |-> 0,                  \* lines skipped for having no brace
     last |-> NoLine,              \* the last line, the buffer it met, its fate
     errLine |-> <<>>,             \* the Line field of the decode error
     cancelled |-> FALSE]          \* the reader's context is done

DecUnchangedHandler ==
    /\ UNCHANGED <<handlerVars, otherVars, configVars, hist>>
    /\ UNCHANGED <<perm, mcp, hk, rq, cl, tp, st, cc>>

\* the error paths of readMessages: setExitError, signalError, return
DecFail(err) ==
    /\ exitErr' = SetExitError(exitErr, err)
    /\ tErrs' = SignalError(tErrs, exitErr')
    /\ tpc' = "signalled"

\* one turn of for scanner.Scan() { ... }: the child prints a line; the
\* scanner gives it to the loop or fails with ErrTooLong, which ends the
\* loop and is reported after it with the buffer as it stands
DecLine(line) ==
    /\ dec.pc = "scan" /\ tpc = "running"
    /\ ~dec.cancelled
    /\ dec.lines < MaxLines
    /\ IF ~ScannerDelivers(line, dec.max)
       THEN /\ DecFail(ErrScan)
            /\ dec' = [dec EXCEPT !.pc = "done", !.lines = @ + 1,
                                  !.errLine = dec.jsonBuffer,
                                  !.last = [line |-> line, buf |-> dec.jsonBuffer,
                                            out |-> "toolong"]]
       ELSE LET f == Feed(dec.jsonBuffer, line, dec.max) IN
            /\ dec' = [dec EXCEPT
                         !.lines = @ + 1,
                         !.skips = IF f.out = "skipped" THEN @ + 1 ELSE @,
                         !.jsonBuffer = f.buf,
                         !.emitted = IF f.out = "emitted" THEN Append(@, f.obj) ELSE @,
                         !.pc = IF f.out = "overflow" THEN "done" ELSE @,
                         !.errLine = IF f.out = "overflow" THEN f.buf ELSE @,
                         !.last = [line |-> line, buf |-> dec.jsonBuffer,
                                   out |-> f.out]]
            /\ IF f.out = "overflow"
               THEN DecFail(ErrOverflow)
               ELSE UNCHANGED <<exitErr, tErrs, tpc>>
    /\ UNCHANGED <<tMsgs, tMsgsClosed, tErrsClosed, ready, stdinOpen, stdin,
                   endInputs, decoded>>
    /\ DecUnchangedHandler

\* t.cancel(), called by Close
DecCancel ==
    /\ dec.pc = "scan"
    /\ ~dec.cancelled
    /\ dec' = [dec EXCEPT !.cancelled = TRUE]
    /\ UNCHANGED transportVars
    /\ DecUnchangedHandler

\* case <-ctx.Done(): return
DecCancelled ==
    /\ dec.pc = "scan" /\ tpc = "running"
    /\ dec.cancelled
    /\ dec' = [dec EXCEPT !.pc = "done"]
    /\ tpc' = "signalled"
    /\ UNCHANGED <<tMsgs, tMsgsClosed, tErrs, tErrsClosed, exitErr, ready,
                   stdinOpen, stdin, endInputs, decoded>>
    /\ DecUnchangedHandler

\* the child closes its stdout: the loop ends without a scanner error, the
\* process is awaited and its failure, if any, stored and signalled
DecEOF(err) ==
    /\ dec.pc = "scan" /\ tpc = "running"
    /\ ~dec.cancelled
    /\ DecFail(err)
    /\ dec' = [dec EXCEPT !.pc = "done"]
    /\ UNCHANGED <<tMsgs, tMsgsClosed, tErrsClosed, ready, stdinOpen, stdin,
                   endInputs, decoded>>
    /\ DecUnchangedHandler

\* ------------------------------------------ subprocessTransport, its callers
MaxWrites == 3         \* calls of Write in one run
MaxEnds == 2           \* calls of EndInput in one run
PiecesPerLine == 2     \* write(2) calls io.WriteString needs for one line

Writers == {"w1", "w2"}                   \* goroutines calling Write
ErrPipeClose == "close of stdin failed"

IdleWrite == [pc |-> "idle", n |-> 0, result |-> NoErr, pieces |-> 0,
              sawReady |-> FALSE, sawStdin |-> FALSE, sawErr |-> NoErr]
NoEnd == [n |-> 0, result |-> NoErr, hadStdin |-> FALSE, afterClose |-> FALSE]

NoTransport == [pc |-> "none"]

\* newSubprocessTransport
NewTransport ==
    [pc |-> "new",
     mu |-> "none",                \* the goroutine holding t.writeMu
     w |-> [x \in Writers |-> IdleWrite],
     writes |-> 0,                 \* calls of Write so far
     wire |-> <<>>,                \* what the pipe received, piece by piece
     pipeCloses |-> 0,             \* calls of t.stdin.Close()
     ends |-> 0,                   \* calls of EndInput so far
     lastEnd |-> NoEnd,            \* the last call of EndInput
     closed |-> FALSE]             \* Close was called

TpUnchangedHandler ==
    /\ UNCHANGED <<handlerVars, otherVars, configVars, hist>>
    /\ UNCHANGED <<perm, mcp, hk, rq, cl, dec, st, cc>>

\* subprocessTransport.Connect: the pipes, the child, the reader, ready = true;
\* when it fails the transport stays as it was made
TpConnect(ok) ==
    /\ tp.pc = "new"
    /\ tp' = [tp EXCEPT !.pc = IF ok THEN "connected" ELSE "failed"]
    /\ ready' = ok
    /\ stdinOpen' = ok
    /\ tpc' = IF ok THEN "running" ELSE tpc
    /\ UNCHANGED <<tMsgs, tMsgsClosed, tErrs, tErrsClosed, exitErr, stdin,
                   endInputs, decoded>>
    /\ TpUnchangedHandler

\* tests of Write that do not look at t.stdin
WriteCheckIgnoresStdin ==
    IF ~ready THEN ErrNotReady
    ELSE IF exitErr # NoErr THEN ErrExited
    ELSE NoErr

\* the two tests of Write, in the state the caller finds
WriteCheck ==
    IF ~ready \/ ~stdinOpen THEN ErrNotReady
    ELSE IF exitErr # NoErr THEN ErrExited
    ELSE NoErr

\* a Write that does not take t.writeMu
TpWriteBeginUnlocked(w) ==
    /\ tp.pc # "none"
    /\ tp.w[w].pc \in {"idle", "done"}
    /\ tp.writes < MaxWrites
    /\ tp' = [tp EXCEPT
                !.writes = @ + 1,
                !.w[w] = [pc |-> IF WriteCheck = NoErr THEN "writing" ELSE "done",
                          n |-> tp.writes + 1, result |-> WriteCheck,
                          pieces |-> 0, sawReady |-> ready,
                          sawStdin |-> stdinOpen, sawErr |-> exitErr]]
    /\ UNCHANGED transportVars
    /\ TpUnchangedHandler

\* Write: t.writeMu.Lock(), the test of ready and stdin, the test of
\* LastError(); a call that fails a test returns and unlocks
TpWriteBegin(w) ==
    /\ tp.pc # "none"
    /\ tp.w[w].pc \in {"idle", "done"}
    /\ tp.writes < MaxWrites
    /\ tp.mu = "none"
    /\ tp' = [tp EXCEPT
                !.writes = @ + 1,
                !.mu = IF WriteCheck = NoErr THEN w ELSE "none",
                !.w[w] = [pc |-> IF WriteCheck = NoErr THEN "writing" ELSE "done",
                          n |-> tp.writes + 1, result |-> WriteCheck,
                          pieces |-> 0, sawReady |-> ready,
                          sawStdin |-> stdinOpen, sawErr |-> exitErr]]
    /\ UNCHANGED transportVars
    /\ TpUnchangedHandler

\* io.WriteString(t.stdin, data): the line goes to the pipe in one or more
\* write(2) calls; a write to the pipe of a child that is gone fails, and
\* then t.ready = false.  The deferred Unlock follows the last of them.
TpWritePiece(w) ==
    /\ tp.w[w].pc = "writing"
    /\ LET k == tp.w[w].pieces + 1 IN
       IF tpc # "running"
       THEN /\ tp' = [tp EXCEPT !.mu = IF @ = w THEN "none" ELSE @,
                                !.w[w].pc = "done",
                                !.w[w].result = ErrStdin]
            /\ ready' = FALSE
            /\ UNCHANGED stdin
       ELSE /\ tp' = [tp EXCEPT
                        !.wire = Append(@, [w |-> w, n |-> tp.w[w].n, part |-> k]),
                        !.w[w].pieces = k,
                        !.w[w].pc = IF k = PiecesPerLine THEN "done" ELSE "writing",
                        !.mu = IF k = PiecesPerLine /\ @ = w THEN "none" ELSE @]
            /\ stdin' = IF k = PiecesPerLine
                        THEN Append(stdin, Line("user", NoId, NoReq, "", tp.w[w].n, w))
                        ELSE stdin
            /\ UNCHANGED ready
    /\ UNCHANGED <<tMsgs, tMsgsClosed, tErrs, tErrsClosed, exitErr, stdinOpen,
                   tpc, endInputs, decoded>>
    /\ TpUnchangedHandler

\* an EndInput that closes the pipe whether or not t.stdin is nil
TpEndInputAlways(closeErr) ==
    /\ tp.pc # "none"
    /\ tp.mu = "none"
    /\ tp.ends < MaxEnds
    /\ EndInput
    /\ tp' = [tp EXCEPT !.ends = @ + 1,
                        !.pipeCloses = @ + 1,
                        !.lastEnd = [n |-> tp.ends + 1, result |-> closeErr,
                                     hadStdin |-> stdinOpen,
                                     afterClose |-> tp.closed]]
    /\ UNCHANGED <<tMsgs, tMsgsClosed, tErrs, tErrsClosed, exitErr, ready, tpc,
                   stdin, decoded>>
    /\ TpUnchangedHandler

\* EndInput, under t.writeMu: if t.stdin != nil, the pipe is closed, t.stdin
\* set to nil and the error of the close returned
TpEndInput(closeErr) ==
    /\ tp.pc # "none"
    /\ tp.mu = "none"
    /\ tp.ends < MaxEnds
    /\ EndInput
    /\ tp' = [tp EXCEPT !.ends = @ + 1,
                        !.pipeCloses = IF stdinOpen THEN @ + 1 ELSE @,
                        !.lastEnd = [n |-> tp.ends + 1,
                                     result |-> IF stdinOpen THEN closeErr ELSE NoErr,
                                     hadStdin |-> stdinOpen,
                                     afterClose |-> tp.closed]]
    /\ UNCHANGED <<tMsgs, tMsgsClosed, tErrs, tErrsClosed, exitErr, ready, tpc,
                   stdin, decoded>>
    /\ TpUnchangedHandler

\* Close, its part under t.writeMu: ready = false, the pipe closed if it is
\* still there; the child is then killed, which the reader sees as its end
TpClose ==
    /\ tp.pc # "none"
    /\ tp.mu = "none"
    /\ TransportClose
    /\ tp' = [tp EXCEPT !.closed = TRUE,
                        !.pipeCloses = IF stdinOpen THEN @ + 1 ELSE @]
    /\ UNCHANGED <<tMsgs, tMsgsClosed, tErrs, tErrsClosed, exitErr, tpc, stdin,
                   endInputs, decoded>>
    /\ TpUnchangedHandler

\* ------------------------------------- queryHandler.start and its readers
MaxStarts == 2         \* calls of start() on one handler

NoStarter == [pc |-> "none"]

\* a handler from newQueryHandler on: starts counts the calls of start(),
\* reader[r] is the position of the reader launched by call r, cancel is the
\* call whose cancel function q.cancel holds (0: nil), cancelled are the
\* read contexts cancelled through q.cancel, wg is q.wg, next is the next
\* message of the transport, took records which reader received which
\* message, chanCloses counts the close(q.msgChan) that succeeded
NewStarter ==
    [pc |-> "idle", starts |-> 0, reader |-> [r \in 1..MaxStarts |-> "none"],
     cancel |-> 0, cancelled |-> {}, hostCancelled |-> FALSE, wg |-> 0,
     closed |-> FALSE, next |-> 1, msgsClosed |-> FALSE, took |-> <<>>,
     chanCloses |-> 0, panicked |-> FALSE, afterClose |-> FALSE]

StUnchangedHandler ==
    /\ UNCHANGED <<transportVars, handlerVars, otherVars, configVars, hist>>
    /\ UNCHANGED <<perm, mcp, hk, rq, cl, tp, dec, cc>>

\* readCtx of reader r is done
StCtxDone(r) == st.hostCancelled \/ r \in st.cancelled

\* start(): q.cancel = cancel; q.wg.Add(1); go q.readMessages(readCtx)
StStart ==
    /\ st.pc # "none" /\ ~st.panicked
    /\ st.starts < MaxStarts
    /\ LET r == st.starts + 1 IN
         st' = [st EXCEPT !.starts = r, !.reader[r] = "select", !.cancel = r,
                          !.wg = @ + 1, !.afterClose = @ \/ st.closed]
    /\ StUnchangedHandler

\* the deferred calls of readMessages: close(q.msgChan), which panics on a
\* channel already closed, then q.wg.Done()
StReturn(r) ==
    [st EXCEPT !.reader[r] = "returned",
               !.chanCloses = IF @ = 0 THEN 1 ELSE @,
               !.panicked = (st.chanCloses > 0),
               !.wg = @ - 1]

\* case msg, ok := <-q.transport.Messages(), with a message
StReceive(r) ==
    /\ ~st.panicked
    /\ st.reader[r] = "select"
    /\ ~st.msgsClosed /\ st.next <= MaxInbound
    /\ st' = [st EXCEPT !.reader[r] = "check", !.next = @ + 1,
                        !.took = Append(@, <<st.next, r>>)]
    /\ StUnchangedHandler

\* if q.closed.Load() { return }, else the message is handled
StCheck(r) ==
    /\ ~st.panicked
    /\ st.reader[r] = "check"
    /\ st' = IF st.closed THEN StReturn(r) ELSE [st EXCEPT !.reader[r] = "select"]
    /\ StUnchangedHandler

\* case <-ctx.Done()
StCtxCase(r) ==
    /\ ~st.panicked
    /\ st.reader[r] = "select"
    /\ StCtxDone(r)
    /\ st' = StReturn(r)
    /\ StUnchangedHandler

\* the transport closes its messages channel
StTransportEnd ==
    /\ st.pc # "none" /\ ~st.panicked
    /\ ~st.msgsClosed
    /\ st' = [st EXCEPT !.msgsClosed = TRUE]
    /\ StUnchangedHandler

\* case msg, ok := <-q.transport.Messages(), with the channel closed
StMsgsClosed(r) ==
    /\ ~st.panicked
    /\ st.reader[r] = "select"
    /\ st.msgsClosed
    /\ st' = StReturn(r)
    /\ StUnchangedHandler

\* close(): q.closed.Store(true); q.cancel() if it is set
StClose ==
    /\ ~st.panicked
    /\ st.pc = "idle"
    /\ st' = [st EXCEPT !.pc = "wait", !.closed = TRUE,
                        !.cancelled = IF st.cancel = 0 THEN @
                                      ELSE @ \cup {st.cancel}]
    /\ StUnchangedHandler

\* close(): q.wg.Wait() returns
StCloseJoin ==
    /\ ~st.panicked
    /\ st.pc = "wait"
    /\ st.wg = 0
    /\ st' = [st EXCEPT !.pc = "closed"]
    /\ StUnchangedHandler

\* the context given to start() is cancelled
StHostCancel ==
    /\ st.pc # "none" /\ ~st.panicked
    /\ ~st.hostCancelled
    /\ st' = [st EXCEPT !.hostCancelled = TRUE]
    /\ StUnchangedHandler

\* ---------------------- ClaudeClient: repeated Connect and Close, and calls
MaxConnects == 2       \* calls of Connect that reach newSubprocessTransport

NoLifecycle == [pc |-> "none"]

\* the operations by the way they test the connection: Query and QueryStream
\* test c.query and c.transport under c.mu and use c.transport after the
\* unlock; Interrupt, SetPermissionMode, SetModel, RewindFiles and
\* GetMCPStatus test and use c.query without the mutex
ClientOps == {"Query", "Interrupt"}

\* how far a Connect gets: transport.Connect fails, initialize fails, or all
\* succeeds
ConnectOutcomes == {"transport", "initialize", "ok"}

IdleOp == [pc |-> "idle", name |-> "", out |-> "none", on |-> 0]

\* a client from NewClient on: transport and query are the fields (0: nil,
\* otherwise the Connect that made the object), started are the pairs of
\* transport and handler whose child process and reader were started,
\* released those a Close has closed
NewLifecycle ==
    [pc |-> "ready", closed |-> FALSE, transport |-> 0, query |-> 0,
     made |-> 0, started |-> {}, released |-> {}, closes |-> 0, op |-> IdleOp]

CcUnchangedHandler ==
    /\ UNCHANGED <<transportVars, handlerVars, otherVars, configVars, hist>>
    /\ UNCHANGED <<perm, mcp, hk, rq, cl, tp, dec, st>>

\* Connect, under c.mu from its first to its last statement
CcConnect(outcome) ==
    /\ cc.pc = "ready"
    /\ cc.made < MaxConnects
    /\ LET id == cc.made + 1 IN
         cc' = IF outcome = "transport"
               THEN [cc EXCEPT !.made = id, !.transport = id]
               ELSE [cc EXCEPT !.made = id, !.transport = id, !.query = id,
                               !.started = @ \cup {id}]
    /\ CcUnchangedHandler

\* Close, under c.mu from its first to its last statement
CcClose ==
    /\ cc.pc = "ready"
    /\ cc.closes < MaxCloses
    /\ cc' = IF cc.closed
             THEN [cc EXCEPT !.closes = @ + 1]
             ELSE [cc EXCEPT !.closes = @ + 1, !.closed = TRUE,
                             !.released = IF cc.query = 0 THEN @
                                          ELSE @ \cup {cc.query},
                             !.query = 0, !.transport = 0]
    /\ CcUnchangedHandler

\* the test of the fields at the head of an operation
CcOpCheck(name) ==
    /\ cc.pc = "ready"
    /\ cc.op.pc = "idle"
    /\ LET nil == IF name = "Query" THEN cc.query = 0 \/ cc.transport = 0
                  ELSE cc.query = 0 IN
         cc' = IF nil
               THEN [cc EXCEPT !.op = [pc |-> "done", name |-> name,
                                       out |-> "not_connected", on |-> 0]]
               ELSE [cc EXCEPT !.op = [pc |-> "checked", name |-> name,
                                       out |-> "none", on |-> 0]]
    /\ CcUnchangedHandler

\* the use after the test: c.transport.Write(...) or c.query.interrupt(ctx)
\* reads the field again; a method of a nil transport or handler
\* dereferences nil
CcOpUse ==
    /\ cc.pc = "ready"
    /\ cc.op.pc = "checked"
    /\ LET ref == IF cc.op.name = "Query" THEN cc.transport ELSE cc.query IN
         cc' = [cc EXCEPT !.op.pc = "done", !.op.on = ref,
                          !.op.out = IF ref = 0 THEN "nil_dereference"
                                     ELSE IF ref \in cc.started \ cc.released
                                     THEN "live" ELSE "error"]
    /\ CcUnchangedHandler

\* ------------------------------------------------------------ specification
InitHandler ==
    /\ tMsgs = <<>> /\ tMsgsClosed = FALSE /\ tErrs = <<>> /\ tErrsClosed = FALSE
    /\ exitErr = NoErr /\ ready = TRUE /\ stdinOpen = TRUE /\ tpc = "running"
    /\ stdin = <<>> /\ endInputs = 0 /\ decoded = <<>>
    /\ closed = FALSE /\ readErr = NoErr /\ pendingRequests = <<>>
    /\ requestCounter = 0 /\ msgChan = <<>> /\ msgChanClosed = FALSE
    /\ delivered = <<>> /\ firstResult = FALSE /\ latchFires = 0
    /\ cancelCalled = FALSE /\ rpc = "unstarted" /\ rcur = NoEnv
    /\ rErrNil = FALSE /\ consumed = <<>>
    /\ call = [c \in Callers |-> IdleCall]
    /\ disp = [n \in 1..MaxInbound |-> [pc |-> "none", env |-> NoEnv, wrote |-> FALSE]]
    /\ cpc = "idle" /\ closes = 0 /\ spc = "unstarted"
    /\ input \in 0..MaxInput
    /\ ctxCancelled = FALSE /\ streamTimer = FALSE
    /\ hasHooks \in BOOLEAN /\ hasServers \in BOOLEAN /\ hasCanUseTool \in BOOLEAN
    /\ hist = [errRead |-> NoErr, failedByErr |-> {}, atClose |-> {},
               stale |-> {}, streamEnds |-> <<>>]

\* the exchanges studied on their own have not begun
InitExt ==
    /\ perm = NoPerm
    /\ mcp = NoMcp
    /\ hk = NoHooks
    /\ rq = NoQuery
    /\ cl = NoClient /\ tp = NoTransport /\ dec = NoDecoder /\ st = NoStarter /\ cc = NoLifecycle

Init == InitHandler /\ InitExt

TransportNext ==
    \/ \E e \in NextEnvelopes : TransportDecode(e)
    \/ \E err \in TransportErrors \cup {NoErr} : TransportExit(err)
    \/ TransportCloseErrs
    \/ TransportCloseMsgs

ReaderNext ==
    \/ Start
    \/ ReaderCtxCase
    \/ ReaderErrCase
    \/ ReaderErrClosedCase
    \/ ReaderRecvCase
    \/ ReaderMsgsClosedCase
    \/ ReaderClosedCheck
    \/ ReaderResponse
    \/ ReaderRequest
    \/ ReaderCancelRequest
    \/ ReaderDefault
    \/ ReaderSend
    \/ ReaderSendCtx
    \/ Receive

CallNext ==
    \/ \E c \in Callers : CallPrecheck(c, SubtypeOf[c])
    \/ \E c \in Callers, hex \in RandHex : CallRegister(c, hex)
    \/ \E c \in Callers : CallWrite(c)
    \/ \E c \in Callers : CallDone(c)
    \/ \E c \in Callers : CallTimeout(c)
    \/ \E c \in Callers : CallCancel(c)

DispatchNext == \E n \in 1..MaxInbound, cb \in {"ok", "err"} : Dispatch(n, cb)

CloseNext == CloseMark \/ CloseFail \/ CloseJoin

StreamNext ==
    \/ StreamStart
    \/ StreamCtxCase
    \/ StreamForward
    \/ StreamInputClosed
    \/ StreamWaitResult
    \/ StreamWaitTimeout
    \/ StreamWaitCtx

Next ==
    \/ TransportNext
    \/ ReaderNext
    \/ CallNext
    \/ DispatchNext
    \/ CloseNext
    \/ StreamNext
    \/ CancelCtx

Spec == Init /\ [][Next]_vars

\* ------------------------------------------- specifications of the subsystems
\* Each leaves out the goroutines and the envelope types that do not take
\* part in the behaviour under study; what is left runs exactly as in Spec.
NoStream == input = 0 /\ ~hasHooks /\ ~hasServers /\ ~hasCanUseTool

InitNoStream == Init /\ NoStream

DecodeOf(types) ==
    \E e \in {x \in NextEnvelopes : x.type \in types} : TransportDecode(e)

\* one inbound control request per subtype, well-formed or not
DecodeRequests(subs) ==
    \E e \in {x \in NextEnvelopes : x.type = "control_request" /\ x.sub \in subs} :
        TransportDecode(e)

TransportExits ==
    \/ \E err \in TransportErrors \cup {NoErr} : TransportExit(err)
    \/ TransportCloseErrs
    \/ TransportCloseMsgs

\* the reader's steps on control responses and on the ends of the transport
ReaderCore ==
    \/ Start
    \/ ReaderRecvCase
    \/ ReaderClosedCheck
    \/ ReaderResponse

ReaderTerminal ==
    \/ ReaderCtxCase
    \/ ReaderSend
    \/ ReaderSendCtx
    \/ Receive

ReaderTransportEnd ==
    \/ ReaderErrCase
    \/ ReaderErrClosedCase
    \/ ReaderMsgsClosedCase

CallsOf(cs) ==
    \/ \E c \in cs : CallPrecheck(c, SubtypeOf[c])
    \/ \E c \in cs, hex \in RandHex : CallRegister(c, hex)
    \/ \E c \in cs : CallWrite(c)
    \/ \E c \in cs : CallDone(c)
    \/ \E c \in cs : CallTimeout(c)
    \/ \E c \in cs : CallCancel(c)

\* the calls up to the wait, with neither timer nor context firing
CallsUntimed(cs) ==
    \/ \E c \in cs : CallPrecheck(c, SubtypeOf[c])
    \/ \E c \in cs, hex \in RandHex : CallRegister(c, hex)
    \/ \E c \in cs : CallWrite(c)
    \/ \E c \in cs : CallDone(c)

CloseOnce ==
    \/ (closes = 0 /\ CloseMark)
    \/ CloseFail
    \/ CloseJoin

\* concurrent control requests, their responses and one close()
NextCalls ==
    \/ DecodeOf({"control_response"})
    \/ ReaderCore
    \/ ReaderCtxCase
    \/ CallsOf(Callers)
    \/ CloseOnce

SpecCalls == InitNoStream /\ [][NextCalls]_vars

\* concurrent control requests while the transport fails or the context given
\* to start() is cancelled
NextFail ==
    \/ DecodeOf({"control_response"})
    \/ TransportExits
    \/ ReaderCore
    \/ ReaderTerminal
    \/ ReaderTransportEnd
    \/ CallsUntimed(Callers)
    \/ CancelCtx

SpecFail == InitNoStream /\ [][NextFail]_vars

\* the demultiplexing of every envelope type under every way the handler can end
NextRead ==
    \/ DecodeOf(ConvTypes \cup {"control_cancel_request", "control_response"})
    \/ DecodeRequests({"can_use_tool"})
    \/ TransportExits
    \/ ReaderCore
    \/ ReaderRequest
    \/ ReaderCancelRequest
    \/ ReaderDefault
    \/ ReaderTerminal
    \/ ReaderTransportEnd
    \/ CloseOnce
    \/ CancelCtx

SpecRead == InitNoStream /\ [][NextRead]_vars

\* one control request under every way the handler can end
NextOne ==
    \/ DecodeOf({"control_response"})
    \/ TransportExits
    \/ ReaderCore
    \/ ReaderTerminal
    \/ ReaderTransportEnd
    \/ CallsOf({"c1"})
    \/ CloseOnce
    \/ CancelCtx

SpecOne == InitNoStream /\ [][NextOne]_vars

\* concurrent control requests and the conversation while the context given
\* to start() is cancelled and close() is never called
NextCancel ==
    \/ DecodeOf(ConvTypes \cup {"control_response"})
    \/ ReaderCore
    \/ ReaderDefault
    \/ ReaderTerminal
    \/ CallsUntimed(Callers)
    \/ CancelCtx

SpecCancel == InitNoStream /\ [][NextCancel]_vars

\* the input stream of a streaming query, the conversation and its first
\* result, with any combination of hooks and in-process tool servers
NextStream ==
    \/ DecodeOf(ConvTypes)
    \/ Start
    \/ ReaderRecvCase
    \/ ReaderClosedCheck
    \/ ReaderDefault
    \/ ReaderTerminal
    \/ StreamNext
    \/ CloseOnce
    \/ CancelCtx

InitStream == Init /\ ~hasCanUseTool

SpecStream == InitStream /\ [][NextStream]_vars

\* inbound control requests of every subtype, their dispatchers, and a
\* close() that closes the transport under them
NextDispatch ==
    \/ DecodeRequests(InboundSubtypes)
    \/ Start
    \/ ReaderRecvCase
    \/ ReaderClosedCheck
    \/ ReaderRequest
    \/ ReaderCtxCase
    \/ DispatchNext
    \/ CloseOnce

InitDispatch == Init /\ input = 0 /\ ~hasServers

SpecDispatch == InitDispatch /\ [][NextDispatch]_vars

\* inbound control requests answered with errors, between the conversation
\* and the outbound control requests of a handler that nothing stops
NextServe ==
    \/ DecodeOf(ConvTypes \cup {"control_response"})
    \/ DecodeRequests(InboundSubtypes)
    \/ ReaderCore
    \/ ReaderRequest
    \/ ReaderDefault
    \/ ReaderSend
    \/ Receive
    \/ DispatchNext
    \/ CallsUntimed({"c1"})

InitServe == Init /\ input = 0 /\ ~hasServers

SpecServe == InitServe /\ [][NextServe]_vars

\* the steps of the reader goroutine in that setting
ReaderPump ==
    \/ ReaderCore
    \/ ReaderRequest
    \/ ReaderDefault
    \/ ReaderSend

\* the scheduler runs the reader whenever it can take a step and the consumer
\* keeps receiving; a dispatcher (the host's callback) may run for ever, and
\* the agent and the callers of control requests may stop at any moment
SpecServeFair ==
    /\ InitServe /\ [][NextServe]_vars
    /\ WF_vars(ReaderPump)
    /\ WF_vars(Receive)

\* control requests and their responses around repeated calls of close()
NextCloseTwice ==
    \/ DecodeOf({"control_response"})
    \/ ReaderCore
    \/ ReaderCtxCase
    \/ CallsUntimed(Callers)
    \/ CloseNext

SpecCloseTwice == InitNoStream /\ [][NextCloseTwice]_vars

\* the reader between the conversation, a consumer that may stop receiving,
\* a cancellation of the context given to start(), and close()
ReaderSteps ==
    \/ ReaderRecvCase
    \/ ReaderClosedCheck
    \/ ReaderDefault
    \/ ReaderSend
    \/ ReaderSendCtx
    \/ ReaderCtxCase

NextJoin ==
    \/ DecodeOf(ConvTypes)
    \/ Start
    \/ ReaderSteps
    \/ Receive
    \/ CancelCtx
    \/ CloseOnce

\* the scheduler runs every goroutine that can take a step: the reader and
\* the caller of close() are not starved; the transport, the consumer and
\* the host may stop at any moment
SpecJoin ==
    /\ InitNoStream /\ [][NextJoin]_vars
    /\ WF_vars(ReaderSteps)
    /\ WF_vars(CloseOnce)

\* a one-shot query from the call of Query or QueryStream to the closing of
\* its two channels: the transport and the reader run once the child is
\* launched, the host may cancel the context, the caller may or may not drain
NextRun ==
    \/ RqConfigure
    \/ \E ok \in BOOLEAN : RqConnect(ok)
    \/ RqStart
    \/ RqInitialize
    \/ RqInitialized
    \/ RqWritePrompt
    \/ RqEndInput
    \/ \E parses \in BOOLEAN : RqReceive(parses)
    \/ RqLoopEnd
    \/ RqForward
    \/ RqForwardCtx
    \/ RqClose
    \/ RqCloseErrs
    \/ RqCloseMsgs
    \/ RqDrain
    \/ RqReadErrors
    \/ (rq.connected /\ DecodeOf(ConvTypes))
    \/ (rq.connected /\ \E e \in {x \in NextEnvelopes : x.rid # NoId} :
                            TransportDecode(e))
    \/ (rq.connected /\ TransportExits)
    \/ ReaderRecvCase
    \/ ReaderClosedCheck
    \/ ReaderResponse
    \/ ReaderDefault
    \/ ReaderTerminal
    \/ ReaderTransportEnd
    \/ CancelCtx

InitRun ==
    /\ InitHandler
    /\ input = 0 /\ ~hasHooks /\ ~hasServers
    /\ perm = NoPerm /\ mcp = NoMcp /\ hk = NoHooks /\ cl = NoClient /\ tp = NoTransport /\ dec = NoDecoder /\ st = NoStarter /\ cc = NoLifecycle
    /\ rq \in {NewQuery(m, p) : m \in {"prompt", "stream"}, p \in BOOLEAN}
    /\ rq.promptTool => hasCanUseTool
    /\ rq.mode = "stream" => hasCanUseTool

SpecRun == InitRun /\ [][NextRun]_vars

\* a handler on which start() is called more than once, before or after
\* close(), with its readers, the transport's messages and the host's context
InitStarter ==
    /\ InitHandler
    /\ input = 0 /\ hasHooks = FALSE /\ hasServers = FALSE /\ hasCanUseTool = FALSE
    /\ perm = NoPerm /\ mcp = NoMcp /\ hk = NoHooks /\ rq = NoQuery
    /\ cl = NoClient /\ tp = NoTransport /\ dec = NoDecoder
    /\ st = NewStarter /\ cc = NoLifecycle

NextStarter ==
    \/ StStart
    \/ \E r \in 1..MaxStarts : StReceive(r)
    \/ \E r \in 1..MaxStarts : StCheck(r)
    \/ \E r \in 1..MaxStarts : StCtxCase(r)
    \/ \E r \in 1..MaxStarts : StMsgsClosed(r)
    \/ StTransportEnd
    \/ StClose
    \/ StCloseJoin
    \/ StHostCancel

SpecStarter == InitStarter /\ [][NextStarter]_vars

\* a client on which Connect and Close are called repeatedly, in any order,
\* while one operation runs concurrently
InitLifecycle ==
    /\ InitHandler
    /\ input = 0 /\ hasHooks = FALSE /\ hasServers = FALSE /\ hasCanUseTool = FALSE
    /\ perm = NoPerm /\ mcp = NoMcp /\ hk = NoHooks /\ rq = NoQuery
    /\ cl = NoClient /\ tp = NoTransport /\ dec = NoDecoder /\ st = NoStarter
    /\ cc = NewLifecycle

NextLifecycle ==
    \/ \E outcome \in ConnectOutcomes : CcConnect(outcome)
    \/ CcClose
    \/ \E name \in ClientOps : CcOpCheck(name)
    \/ CcOpUse

SpecLifecycle == InitLifecycle /\ [][NextLifecycle]_vars

\* a one-shot query with a string prompt and hooks, in-process tool servers
\* or both registered
InitHooked ==
    /\ InitHandler
    /\ input = 0 /\ hasCanUseTool = FALSE /\ (hasHooks \/ hasServers)
    /\ perm = NoPerm /\ mcp = NoMcp /\ hk = NoHooks /\ cl = NoClient
    /\ tp = NoTransport /\ dec = NoDecoder /\ st = NoStarter /\ cc = NoLifecycle
    /\ rq = NewQuery("prompt", FALSE)

SpecHooked == InitHooked /\ [][NextRun]_vars

\* a transport from newSubprocessTransport on: Connect, concurrent callers of
\* Write and EndInput at any moment, Close once Connect has returned, and
\* the child ending
InitTransport ==
    /\ tMsgs = <<>> /\ tMsgsClosed = FALSE /\ tErrs = <<>> /\ tErrsClosed = FALSE
    /\ exitErr = NoErr /\ ready = FALSE /\ stdinOpen = FALSE /\ tpc = "unstarted"
    /\ stdin = <<>> /\ endInputs = 0 /\ decoded = <<>>
    /\ closed = FALSE /\ readErr = NoErr /\ pendingRequests = <<>>
    /\ requestCounter = 0 /\ msgChan = <<>> /\ msgChanClosed = FALSE
    /\ delivered = <<>> /\ firstResult = FALSE /\ latchFires = 0
    /\ cancelCalled = FALSE /\ rpc = "unstarted" /\ rcur = NoEnv
    /\ rErrNil = FALSE /\ consumed = <<>>
    /\ call = [c \in Callers |-> IdleCall]
    /\ disp = [n \in 1..MaxInbound |-> [pc |-> "none", env |-> NoEnv, wrote |-> FALSE]]
    /\ cpc = "idle" /\ closes = 0 /\ spc = "unstarted"
    /\ input = 0 /\ ctxCancelled = FALSE /\ streamTimer = FALSE
    /\ hasHooks = FALSE /\ hasServers = FALSE /\ hasCanUseTool = FALSE
    /\ hist = [errRead |-> NoErr, failedByErr |-> {}, atClose |-> {},
               stale |-> {}, streamEnds |-> <<>>]
    /\ perm = NoPerm /\ mcp = NoMcp /\ hk = NoHooks /\ rq = NoQuery
    /\ cl = NoClient /\ dec = NoDecoder /\ st = NoStarter /\ cc = NoLifecycle
    /\ tp = NewTransport

NextTransport ==
    \/ \E ok \in BOOLEAN : TpConnect(ok)
    \/ \E w \in Writers : TpWriteBegin(w)
    \/ \E w \in Writers : TpWritePiece(w)
    \/ \E closeErr \in {NoErr, ErrPipeClose} : TpEndInput(closeErr)
    \/ (tp.pc # "new" /\ TpClose)
    \/ \E err \in TransportErrors \cup {NoErr} : TransportExit(err)

SpecTransport == InitTransport /\ [][NextTransport]_vars

\* the reader of a connected transport over every stdout of a few lines
InitDecoder ==
    /\ InitHandler
    /\ input = 0 /\ ~hasHooks /\ ~hasServers /\ ~hasCanUseTool
    /\ perm = NoPerm /\ mcp = NoMcp /\ hk = NoHooks /\ rq = NoQuery
    /\ cl = NoClient /\ tp = NoTransport /\ st = NoStarter /\ cc = NoLifecycle
    /\ dec \in {NewDecoder(max) : max \in MaxBufferSizes}

NextDecoder ==
    \/ \E line \in Lines : DecLine(line)
    \/ DecCancel
    \/ DecCancelled
    \/ \E err \in TransportErrors \cup {NoErr} : DecEOF(err)
    \/ TransportCloseErrs
    \/ TransportCloseMsgs

SpecDecoder == InitDecoder /\ [][NextDecoder]_vars

\* a client from NewClient on
InitClient ==
    /\ InitHandler
    /\ input = 0 /\ ~hasHooks /\ ~hasServers
    /\ perm = NoPerm /\ mcp = NoMcp /\ hk = NoHooks /\ rq = NoQuery
    /\ cl \in {NewClient(p) : p \in BOOLEAN}
    /\ tp = NoTransport /\ dec = NoDecoder /\ st = NoStarter /\ cc = NoLifecycle
    /\ cl.promptTool => hasCanUseTool

\* Connect with every way it can fail, and the operations of the client
\* called while no Connect has succeeded; the agent, once launched, stays
\* alive and sends conversation messages
NextClient ==
    \/ \E ok \in BOOLEAN : ClConnect(ok)
    \/ ClStart
    \/ \E outcome \in InitializeOutcomes : ClInitialize(outcome)
    \/ (~Connected /\ \E op \in WriteOps : ClWriteOp(op))
    \/ (~Connected /\ \E op \in ControlOps : ClControlNotConnected(op))
    \/ (~Connected /\ ClControl)
    \/ (~Connected /\ \E kind \in ReceiveKinds : ClReceiveCall(kind))
    \/ ClReceiveCheck
    \/ \E parses \in BOOLEAN : ClReceiveTake(parses)
    \/ ClReceiveForward
    \/ ClReceiveForwardCtx
    \/ ClReceiveClose
    \/ (cl.pc = "failed" /\ cl.query /\ DecodeOf(ConvTypes))
    \/ ReaderRecvCase
    \/ ReaderClosedCheck
    \/ ReaderDefault
    \/ ReaderSend

SpecClient == InitClient /\ [][NextClient]_vars

\* the receive calls of a connected client, one after the other, over a
\* conversation that the agent may end at any moment
NextReceive ==
    \/ \E ok \in BOOLEAN : ClConnect(ok)
    \/ ClStart
    \/ \E outcome \in InitializeOutcomes : ClInitialize(outcome)
    \/ (Connected /\ \E kind \in ReceiveKinds : ClReceiveCall(kind))
    \/ ClReceiveCheck
    \/ \E parses \in BOOLEAN : ClReceiveTake(parses)
    \/ ClReceiveEnd
    \/ ClReceiveForward
    \/ ClReceiveForwardCtx
    \/ ClReceiveClose
    \/ (Connected /\ DecodeOf(ConvTypes))
    \/ (Connected /\ TransportExits)
    \/ ReaderRecvCase
    \/ ReaderClosedCheck
    \/ ReaderDefault
    \/ ReaderSend
    \/ ReaderTransportEnd

SpecReceive == InitClient /\ [][NextReceive]_vars

\* one can_use_tool request, with and without a registered callback, and
\* every result the callback may return
InitPermission ==
    /\ InitHandler
    /\ input = 0 /\ ~hasHooks /\ ~hasServers
    /\ perm \in {AskedPerm(q) : q \in PermissionRequests}
    /\ mcp = NoMcp /\ hk = NoHooks /\ rq = NoQuery /\ cl = NoClient /\ tp = NoTransport /\ dec = NoDecoder /\ st = NoStarter /\ cc = NoLifecycle

NextPermission == \E r \in PermissionResults : PermissionExchange(r)

SpecPermission == InitPermission /\ [][NextPermission]_vars

\* one mcp_message request, with and without the in-process server, for every
\* request and every outcome of the tool
InitMcp ==
    /\ InitHandler
    /\ input = 0 /\ ~hasHooks /\ ~hasCanUseTool
    /\ perm = NoPerm /\ hk = NoHooks /\ rq = NoQuery /\ cl = NoClient /\ tp = NoTransport /\ dec = NoDecoder /\ st = NoStarter /\ cc = NoLifecycle
    /\ mcp \in {AskedMcp(q) : q \in McpRequests}

NextMcp == \E outcome \in ToolOutcomes : McpExchange(outcome)

SpecMcp == InitMcp /\ [][NextMcp]_vars

\* initialize over every hook configuration, with hook_callback requests
\* handled at any moment
InitHooks ==
    /\ InitHandler
    /\ input = 0 /\ ~hasServers /\ ~hasCanUseTool
    /\ hasHooks = TRUE
    /\ perm = NoPerm /\ mcp = NoMcp /\ rq = NoQuery /\ cl = NoClient /\ tp = NoTransport /\ dec = NoDecoder /\ st = NoStarter /\ cc = NoLifecycle
    /\ hk \in {NewHooks(c) : c \in HookConfigs}

NextHooks ==
    \/ InitializeBegin
    \/ RegisterBegin
    \/ RegisterEnd
    \/ InitializeWrite
    \/ \E id \in InboundCallbackIDs, outcome \in HookOutcomes :
          \/ HookLookup(id, outcome)
          \/ HookLookupRaced(id, outcome)

SpecHooks == InitHooks /\ [][NextHooks]_vars

\* ===================================================================== claims
ReturnedCalls == {c \in Callers : call[c].pc = "done"}
FiveOutcomes == {"success", "agent_error", "timeout", "cancelled", "terminal"}
WriteErrors == {ErrNotReady, ErrExited, ErrStdin}
Consumed(type, id, subs) ==
    {i \in 1..Len(consumed) : /\ consumed[i].type = type
                              /\ consumed[i].rid = id
                              /\ consumed[i].sub \in subs}
RequestLines(id) ==
    {i \in 1..Len(stdin) : stdin[i].kind = "control_request" /\ stdin[i].rid = id}

\* what a returned call reports is what happened to its request
OutcomeIsTruthful(c) ==
    LET r == call[c] IN
    CASE r.out = "success" ->
            /\ r.err = NoErr
            /\ r.body.type = "control_response" /\ r.body.rid = r.id
            /\ r.body.n \in Consumed("control_response", r.id, {"success"})
      [] r.out = "agent_error" ->
            /\ r.err = ErrAgent
            /\ Consumed("control_response", r.id, {"error"}) # {}
      [] r.out = "timeout" -> r.err = TimeoutError(r.sub) /\ RequestLines(r.id) # {}
      [] r.out = "cancelled" -> r.err = ErrCtx /\ RequestLines(r.id) # {}
      [] r.out = "terminal" ->
            \/ r.err = readErr /\ r.err # NoErr
            \/ r.err = ErrClosed /\ closed
      [] r.out = "write_error" -> r.err \in WriteErrors /\ RequestLines(r.id) = {}
      [] OTHER -> FALSE

\* C1, as stated: every call of sendControlRequest returns one of the five
\* outcomes {success body, agent error, timeout, cancellation, handler-terminal
\* error}, and once it has returned the pending table holds no record for its
\* request id.
C1_AsStated ==
    \A c \in ReturnedCalls :
        /\ call[c].out \in FiveOutcomes
        /\ call[c].id \notin DOMAIN pendingRequests

\* C1, amended: every call of sendControlRequest returns exactly one of six
\* outcomes (the five of the claim, or the transport's write error when the
\* control_request line could not be written), the outcome reports what
\* happened to the request, and once the call has returned the pending table
\* holds no record for its request id, also after a failed write.
C1_Outcomes ==
    \A c \in ReturnedCalls :
        /\ call[c].out \in FiveOutcomes \cup {"write_error"}
        /\ OutcomeIsTruthful(c)
        /\ call[c].id \notin DOMAIN pendingRequests

\* a call whose write failed has returned the write error and left no record
C1_Witness ==
    \E c \in ReturnedCalls :
        /\ call[c].out = "write_error"
        /\ call[c].id # NoId
        /\ call[c].id \notin DOMAIN pendingRequests

\* the conversation messages among envelopes, in order
Conversation(seq) == SelectSeq(seq, LAMBDA e : ~IsControl(e))
\* the delivered messages that came from the transport
FromTransport(seq) == SelectSeq(seq, LAMBDA e : e.n # 0)
Synthetic(seq) == SelectSeq(seq, LAMBDA e : e.n = 0)

ErrorRead == hist.errRead # NoErr
LastDelivered == delivered[Len(delivered)]
EndsWithErrorEnvelope ==
    /\ delivered # <<>>
    /\ LastDelivered.n = 0
    /\ LastDelivered.type = "error" /\ LastDelivered.sub = hist.errRead

\* C3, as stated: once the reader has taken an error from Errors() and
\* returned, the message channel holds exactly one synthetic error envelope,
\* as its last element, and is closed, and last_error is that error.
C3_AsStated ==
    (ErrorRead /\ rpc = "done") =>
        /\ EndsWithErrorEnvelope
        /\ Len(Synthetic(delivered)) = 1
        /\ msgChanClosed
        /\ readErr = hist.errRead

C3_State ==
    ErrorRead =>
        /\ readErr = hist.errRead
        /\ rpc \in {"push", "done"}
        /\ \A id \in hist.failedByErr \cap DOMAIN pendingRequests :
              pendingRequests[id].done /\ pendingRequests[id].err = hist.errRead
        /\ \A c \in ReturnedCalls :
              call[c].id \in hist.failedByErr =>
                  /\ call[c].out \in {"terminal", "write_error"}
                  /\ call[c].out = "terminal" => call[c].err = hist.errRead
        /\ rpc = "done" =>
              /\ msgChanClosed
              /\ Len(Synthetic(delivered)) <= 1
              /\ Synthetic(delivered) # <<>> => EndsWithErrorEnvelope
              /\ ~ReaderCtxDone => EndsWithErrorEnvelope

C3_Step ==
    \A c \in Callers :
        (ErrorRead /\ call[c].pc = "idle" /\ call'[c].pc # "idle") =>
            /\ call'[c].pc = "done"
            /\ call'[c].out = "terminal" /\ call'[c].err = hist.errRead
            /\ UNCHANGED <<pendingRequests, stdin>>

\* C3, amended: once the reader has taken an error from Errors(), last_error
\* is that error, every request pending at that moment has its completion
\* fired with it (its caller returns that error unless its own write failed,
\* and never returns a response), every request issued afterwards fails at
\* once with it (nothing registered, nothing written), and when the reader
\* has returned
\* the channel is closed and holds at most one synthetic error envelope, as
\* its last element: exactly one unless the reader's context was cancelled
\* before the envelope could be sent.
C3_Terminal == []C3_State /\ [][C3_Step]_vars

\* a pending request failed with the transport error, a later one was
\* rejected with it at once, and the synthetic envelope closed the channel
C3_Witness ==
    /\ ErrorRead /\ rpc = "done" /\ EndsWithErrorEnvelope
    /\ \E c, d \in ReturnedCalls :
          /\ call[c].id \in hist.failedByErr
          /\ call[c].out = "terminal" /\ call[c].err = hist.errRead
          /\ call[d].id = NoId
          /\ call[d].out = "terminal" /\ call[d].err = hist.errRead

\* ---------------------------------------------------------------- close()
\* the calls whose request was pending when close() failed the table
PendingAtClose == {c \in Callers : call[c].id \in hist.atClose}

C4_State ==
    \A c \in PendingAtClose :
        /\ call[c].pc \in {"reg", "wait"} =>
              /\ call[c].id \in DOMAIN pendingRequests
              /\ pendingRequests[call[c].id].done
              /\ pendingRequests[call[c].id].err \in {ErrClosed, ErrAgent}
        /\ call[c].pc = "done" =>
              /\ call[c].out \in {"terminal", "agent_error", "timeout",
                                   "cancelled", "write_error"}
              /\ call[c].out = "terminal" => call[c].err = ErrClosed

C4_Step ==
    (cpc = "marked" /\ cpc' = "wait") =>
        \A id \in DOMAIN pendingRequests :
            /\ id \in DOMAIN pendingRequests'
            /\ pendingRequests'[id].done
            /\ ~pendingRequests[id].done => pendingRequests'[id].err = ErrClosed

C5_AsStated ==
    \A c \in Callers :
        call[c].afterClose =>
            /\ call[c].pc = "done"
            /\ call[c].out = "terminal"
            /\ call[c].id = NoId

\* ------------------------------------------------------------ correlation
\* C6: a caller that gets a response gets the one carrying its own request
\* id, in whatever order the responses arrive, and a control_response changes
\* no pending record but the one registered under its request_id.
C6_State ==
    /\ \A c \in ReturnedCalls :
          call[c].out = "success" => call[c].body.rid = call[c].id
    /\ \A id \in DOMAIN pendingRequests :
          pendingRequests[id].result # NoEnv => pendingRequests[id].result.rid = id

C6_Step ==
    (rpc = "handle" /\ rpc' = "select" /\ rcur.type = "control_response") =>
        \A id \in DOMAIN pendingRequests :
            id # rcur.rid =>
                /\ id \in DOMAIN pendingRequests'
                /\ pendingRequests'[id] = pendingRequests[id]

C6_Correlation == []C6_State /\ [][C6_Step]_vars

\* the response to the later-issued request arrived first, and both callers
\* got their own
C6_Witness ==
    /\ Len(consumed) = 2
    /\ consumed[1].rid[1] = 2 /\ consumed[2].rid[1] = 1
    /\ \A c \in Callers :
          /\ call[c].pc = "done" /\ call[c].out = "success"
          /\ call[c].body.rid = call[c].id

\* ---------------------------------------------------------------- timeout
\* C7: the timer case returns a timeout error naming the request's subtype,
\* removes the pending record and leaves the handler as it was: terminal
\* error, closed flag, message channel and reader are untouched, so a later
\* control request can still complete.
C7_Step ==
    \A c \in Callers :
        (call[c].pc = "wait" /\ call'[c].pc = "done" /\ call'[c].out = "timeout") =>
            /\ call'[c].err = "control request timeout: " \o call[c].sub
            /\ call[c].sub = SubtypeOf[c]
            /\ call[c].id \notin DOMAIN pendingRequests'
            /\ UNCHANGED <<readErr, closed, msgChan, msgChanClosed, cancelCalled,
                           rpc, ready, stdinOpen>>

C7_Timeout == [][C7_Step]_vars

\* a request timed out, and a request issued after that completed
C7_Witness ==
    \E c, d \in ReturnedCalls :
        /\ call[c].out = "timeout"
        /\ call[c].err = "control request timeout: initialize"
        /\ c \in call[d].after
        /\ call[d].out = "success"
        /\ readErr = NoErr /\ ~closed /\ ~msgChanClosed

\* ----------------------------------------------------------- cancellation
\* C8: the ctx.Done case returns the context's error and removes the pending
\* record; a control_response whose request_id has no pending record (its
\* request was cancelled or timed out) changes nothing: no record, no
\* delivered message, no terminal error, and the reader goes on.
C8_Step ==
    /\ \A c \in Callers :
          (call[c].pc = "wait" /\ call'[c].pc = "done" /\ call'[c].out = "cancelled") =>
              /\ call'[c].err = ErrCtx
              /\ call[c].id \notin DOMAIN pendingRequests'
    /\ (/\ rpc = "handle" /\ rpc' # "handle"
        /\ rcur.type = "control_response"
        /\ rcur.rid \notin DOMAIN pendingRequests) =>
              /\ rpc' = "select"
              /\ UNCHANGED <<pendingRequests, delivered, msgChan, msgChanClosed,
                             readErr, closed, call>>

C8_Cancel == [][C8_Step]_vars

\* the responses to a cancelled and to a timed-out request arrived late and
\* were dropped
C8_Witness ==
    /\ \E c, d \in ReturnedCalls :
          /\ call[c].out = "cancelled" /\ call[c].id \in hist.stale
          /\ call[d].out = "timeout" /\ call[d].id \in hist.stale
    /\ DOMAIN pendingRequests = {}
    /\ delivered = <<>> /\ msgChan = <<>>
    /\ readErr = NoErr /\ ~msgChanClosed /\ rpc = "select"

\* ------------------------------------------------------------ streamInput
\* C9: with a hook or an in-process tool server registered, streamInput calls
\* EndInput only once the first-result latch fired, the stream-close timer
\* elapsed or the context was cancelled, each call for the reason it records;
\* with neither it calls EndInput as soon as it sees the input closed and
\* never waits; it calls EndInput at most once.
C9_State ==
    /\ Len(hist.streamEnds) <= 1
    /\ endInputs <= 1
    /\ spc = "wait" => MustWaitForResult(hasHooks, hasServers) /\ input = 0
    /\ \A i \in 1..Len(hist.streamEnds) :
          /\ spc = "done" /\ input = 0 /\ ~stdinOpen
          /\ IF hasHooks \/ hasServers
             THEN /\ hist.streamEnds[i] \in {"result", "timeout", "ctx"}
                  /\ firstResult \/ streamTimer \/ ReaderCtxDone
                  /\ hist.streamEnds[i] = "result" => firstResult
                  /\ hist.streamEnds[i] = "timeout" => streamTimer
                  /\ hist.streamEnds[i] = "ctx" => ctxCancelled
             ELSE hist.streamEnds[i] = "direct"

C9_Step ==
    (spc = "loop" /\ input = 0 /\ spc' # "loop" /\ ~ctxCancelled) =>
        IF hasHooks \/ hasServers
        THEN spc' = "wait" /\ UNCHANGED <<stdinOpen, endInputs>>
        ELSE spc' = "done" /\ ~stdinOpen' /\ hist'.streamEnds = <<"direct">>

C9_EndInput == []C9_State /\ [][C9_Step]_vars

\* with a tool server registered and the input closed, stdin was closed only
\* after the first result had come
C9_Witness ==
    /\ hasServers /\ ~hasHooks
    /\ hist.streamEnds = <<"result">>
    /\ firstResult /\ ~streamTimer /\ ~ReaderCtxDone
    /\ endInputs = 1

\* --------------------------------------------------- handleControlRequest
\* the control_response lines written for the inbound envelope n
ResponsesTo(n) ==
    SelectSeq(stdin, LAMBDA l : l.kind = "control_response" /\ l.n = n)

\* C10: for an inbound control_request with a request_id and a request
\* object, of any subtype, the handler writes one control_response echoing
\* the request_id, "success" with the dispatcher's output or "error" with its
\* error string, when the transport accepts the write, and never two; it
\* writes none for a request without them.
C10_State ==
    \A n \in 1..MaxInbound :
        LET ls == ResponsesTo(n)
            e == disp[n].env IN
          /\ Len(ls) <= 1
          /\ (disp[n].pc = "done" /\ disp[n].wrote) => Len(ls) = 1
          /\ \A i \in 1..Len(ls) :
                /\ disp[n].pc = "done"
                /\ e.type = "control_request" /\ e.req # NoReq
                /\ ls[i].req = e.req
                /\ ls[i].sub \in {"success", "error"}
                /\ \E cb \in {"ok", "err"} :
                      <<ls[i].sub, ls[i].body>> = DispatchResult(e, cb)
                /\ e.sub \notin {"can_use_tool", "hook_callback", "mcp_message"}
                      => ls[i].sub = "error"

\* a request answered with "success" and a request of an unknown subtype
\* answered with "error", one response each
C10_Witness ==
    \E n, m \in 1..MaxInbound :
        /\ Len(ResponsesTo(n)) = 1 /\ ResponsesTo(n)[1].sub = "success"
        /\ Len(ResponsesTo(m)) = 1 /\ ResponsesTo(m)[1].sub = "error"
        /\ disp[m].env.sub = "bogus"
        /\ Len(stdin) = 2

\* --------------------------------------------------------- handleCanUseTool
\* C11: the reply to a can_use_tool request.  Without a callback it is an
\* error and nothing is invoked.  When the callback allows, the body has
\* behavior "allow" and updatedInput is the callback's replacement if it gave
\* one (a non-nil map) and otherwise the request's input, the empty map when
\* the request had none.  When it denies, the body has behavior "deny", the
\* message, and interrupt exactly when the callback set it.
C11_Reply ==
    perm.pc = "answered" =>
        LET q == perm.request
            r == perm.result
            kind == perm.reply[1]
            body == perm.reply[2] IN
          /\ ~hasCanUseTool => kind = "error" /\ ~perm.called
          /\ hasCanUseTool =>
                /\ perm.called
                /\ perm.args.tool = q.tool
                /\ r.kind = "allow" =>
                      /\ kind = "success"
                      /\ body.behavior = "allow"
                      /\ r.updatedInput # NilMap => body.updatedInput = r.updatedInput
                      /\ (r.updatedInput = NilMap /\ q.input # NilMap)
                            => body.updatedInput = q.input
                      /\ (r.updatedInput = NilMap /\ q.input = NilMap)
                            => body.updatedInput = EmptyMap
                /\ r.kind = "deny" =>
                      /\ kind = "success"
                      /\ body.behavior = "deny"
                      /\ body.message = r.message
                      /\ body.interrupt = "true" <=> r.interrupt
                /\ r.kind \in {"error", "other"} => kind = "error"

\* the callback allowed without a replacement a request that had no input:
\* the reply echoes the empty map
C11_Witness ==
    /\ perm.pc = "answered" /\ hasCanUseTool
    /\ perm.request.input = NilMap
    /\ perm.result.kind = "allow" /\ perm.result.updatedInput = NilMap
    /\ perm.reply[1] = "success" /\ perm.reply[2].updatedInput = EmptyMap

\* --------------------------------------------------------- handleMcpMessage
\* C12: the reply to an mcp_message request that carries a server name and a
\* message.  When the server is not registered the reply has subtype
\* "success" and its body wraps a JSON-RPC error with code -32601, a message
\* naming the server and the id of the embedded message, and no server is
\* invoked.  When the server is registered the body wraps exactly the
\* response of that server to the embedded message.  In both cases the
\* handler has no terminal error and its message channel is open.
C12_Reply ==
    (mcp.pc = "answered" /\ mcp.request.server # "" /\ mcp.request.message.present) =>
        LET q == mcp.request
            resp == mcp.reply[2].mcp_response IN
          /\ mcp.reply[1] = "success"
          /\ q.server \notin SdkMcpServers =>
                /\ resp.jsonrpc = "2.0" /\ resp.has = "error"
                /\ resp.code = -32601
                /\ resp.message = <<"Server '", q.server, "' not found">>
                /\ resp.id = q.message.id
                /\ mcp.served = ""
          /\ q.server \in SdkMcpServers =>
                /\ mcp.served = q.server
                /\ resp = mcp.answer
                /\ resp.jsonrpc = "2.0"
                /\ q.message.method # "notifications/initialized"
                      => resp.id = q.message.id
          /\ readErr = NoErr /\ ~msgChanClosed /\ ~closed

\* a request for a server that is not registered, while another one is, was
\* answered with the wrapped JSON-RPC error
C12_Witness ==
    /\ mcp.pc = "answered" /\ hasServers
    /\ mcp.request.server = "nonexistent" /\ mcp.request.message.present
    /\ mcp.request.message.id = "req-7"
    /\ mcp.reply[1] = "success"
    /\ mcp.reply[2].mcp_response.has = "error"
    /\ mcp.reply[2].mcp_response.id = "req-7"

\* ----------------------------------------- initialize and handleHookCallback
\* C13: the ids hook_<n> that initialize generates are pairwise distinct and
\* are all in the registry before the initialize request is written; a
\* hook_callback request with id X invokes exactly the callback registered
\* under X, a nil return becoming the empty object; a request with an id
\* that is not registered invokes no callback and is answered with an error.
C13_AsStated ==
    /\ \A i, j \in DOMAIN hk.requestIds :
          i # j => hk.requestIds[i] # hk.requestIds[j]
    /\ hk.written =>
          \A i \in DOMAIN hk.requestIds : hk.requestIds[i] \in hk.registryAtWrite
    /\ hk.last.reply[1] # "none" =>
          /\ hk.last.registered =>
                /\ hk.last.invoked = hk.hookCallbacks[hk.last.id]
                /\ hk.last.reply[1] \in {"success", "error"}
          /\ ~hk.last.registered =>
                /\ hk.last.invoked = "none"
                /\ hk.last.reply[1] = "error"

\* C13, for the requests that are not handled while initialize is inside an
\* assignment to the registry: distinct ids, all registered before the
\* write, and every such request is answered from the registry
C13_Registry ==
    /\ \A i, j \in DOMAIN hk.requestIds :
          i # j => hk.requestIds[i] # hk.requestIds[j]
    /\ hk.written =>
          /\ hk.todo = <<>>
          /\ \A i \in DOMAIN hk.requestIds : hk.requestIds[i] \in hk.registryAtWrite
    /\ (hk.last.reply[1] # "none" /\ ~hk.last.raced) =>
          /\ hk.last.registered =>
                /\ hk.last.invoked = hk.hookCallbacks[hk.last.id]
                /\ hk.last.reply[1] \in {"success", "error"}
          /\ ~hk.last.registered =>
                /\ hk.last.invoked = "none"
                /\ hk.last.reply[1] = "error"

\* three callbacks were registered and the request written, and the callback
\* registered under hook_2 was invoked and returned nil
C13_Witness ==
    /\ hk.written /\ Len(hk.requestIds) = 3
    /\ hk.last.id = CallbackID(2) /\ hk.last.invoked # "none"
    /\ hk.last.reply = <<"success", EmptyMap>>

\* ------------------------------------------------------------ error replies
ErrorReplies ==
    {i \in 1..Len(stdin) : stdin[i].kind = "control_response" /\ stdin[i].sub = "error"}

\* C14: a callback that fails and a request of an unsupported subtype are
\* answered with one control_response of subtype "error" and change nothing
\* else.  Once such a reply is written the terminal error is still unset, the
\* message channel is open and carries no error envelope, the reader runs,
\* every later dispatcher writes its response and every outbound request that
\* returns has got the agent's response.
C14_State ==
    /\ \A n \in 1..MaxInbound :
          (disp[n].pc = "done" /\ disp[n].wrote
              /\ disp[n].env.sub \notin {"can_use_tool", "hook_callback", "mcp_message"})
            => /\ Len(ResponsesTo(n)) = 1
               /\ ResponsesTo(n)[1].sub = "error"
               /\ ResponsesTo(n)[1].body = "unsupported control request subtype"
    /\ ErrorReplies # {} =>
          /\ readErr = NoErr /\ ~closed /\ ~cancelCalled
          /\ ~msgChanClosed /\ rpc # "done"
          /\ \A i \in 1..Len(delivered) : delivered[i].type # "error"
          /\ \A n \in 1..MaxInbound :
                (disp[n].pc = "done" /\ disp[n].env.req # NoReq)
                    => Len(ResponsesTo(n)) = 1
          /\ \A c \in ReturnedCalls : call[c].out \in {"success", "agent_error"}

C14_Step ==
    \A n \in 1..MaxInbound :
        (disp[n].pc = "running" /\ disp'[n].pc = "done") =>
            /\ UNCHANGED <<handlerVars, call, tMsgs, tErrs, exitErr, stdinOpen>>
            /\ ready' = ready
            /\ Len(stdin') <= Len(stdin) + 1

C14_ErrorReplyOnly == []C14_State /\ [][C14_Step]_vars

\* a hook callback failed and was answered with an error; the outbound
\* request written after that reply completed with the agent's response
C14_Witness ==
    /\ Len(stdin) = 2
    /\ stdin[1].kind = "control_response" /\ stdin[1].sub = "error"
    /\ stdin[1].body = "callback error"
    /\ stdin[2].kind = "control_request"
    /\ call["c1"].pc = "done" /\ call["c1"].out = "success"
    /\ readErr = NoErr /\ ~msgChanClosed

\* ------------------------------------------------------------ close() twice
\* what a call of close() may touch, besides its own position
CloseFootprint ==
    <<closed, readErr, pendingRequests, msgChan, msgChanClosed, delivered,
      cancelCalled, rpc, ready, stdinOpen, stdin, call>>

\* a step of a close() that was called after an earlier close(), of a started
\* handler, had returned
LaterCloseStep == closes >= 1 /\ cancelCalled /\ cpc' # cpc

\* C15, as stated: a second close() returns and changes nothing: it fails no
\* further request, does not close the message channel again, and leaves the
\* state as the first call left it.
C15_AsStated ==
    [][LaterCloseStep => UNCHANGED CloseFootprint]_vars

\* C15, when no control request was registered since the first close(): the
\* second call goes through its three steps and changes nothing
C15_Step ==
    (LaterCloseStep /\ \A id \in DOMAIN pendingRequests : pendingRequests[id].done)
        => UNCHANGED CloseFootprint

C15_Idempotent == [][C15_Step]_vars

\* the second close() has returned and the channel was closed by the reader
C15_Witness ==
    /\ closes = 2 /\ cpc = "idle"
    /\ msgChanClosed /\ rpc = "done"
    /\ DOMAIN pendingRequests = {}

\* ------------------------------------------------------- close() terminates
\* C16, as stated: a close() called on a started handler returns, whatever
\* the message channel holds, whether or not a consumer receives, and whether
\* or not the context given to start() was cancelled before.
C16_AsStated ==
    (cpc = "marked" /\ rpc # "unstarted") ~> (cpc = "idle")

\* C16, when the reader is not already inside the pushErrorMessage that
\* follows a cancellation of its context: close() returns
C16_Joins ==
    (cpc = "marked" /\ rpc \notin {"unstarted", "pushbg"}) ~> (cpc = "idle")

\* close() waits for a reader that is blocked sending the error envelope on
\* a full channel
C16_Stuck ==
    /\ cpc = "wait" /\ rpc = "pushbg"
    /\ Len(msgChan) = MsgChanCap /\ ctxCancelled /\ cancelCalled

\* ---------------------------------------------------------------- runQuery
\* C17: a one-shot query sends at most one error on its errors channel, the
\* first failure it meets; the send never blocks; and a caller that drains
\* the messages until the channel is closed and then reads the errors channel
\* gets that error, or nothing when none was sent.
C17_State ==
    /\ Len(rq.sentErrs) <= 1
    /\ rq.pc # "blocked"
    /\ Len(rq.errs) <= 1
    /\ rq.hadError <=> rq.sentErrs # <<>>
    /\ rq.outClosed => rq.errsClosed
    /\ rq.observed # "unread" =>
          rq.observed = IF rq.sentErrs = <<>> THEN "none" ELSE rq.sentErrs[1]

\* a step that sends an error is the first to do so, and ends the forwarding
C17_Step ==
    rq'.sentErrs # rq.sentErrs =>
        /\ rq.sentErrs = <<>>
        /\ rq'.pc \in {"closing", "closeErrs"}

C17_OneError == []C17_State /\ [][C17_Step]_vars

\* the context was cancelled while a message waited to be forwarded; the
\* caller drained the channel and then read that one error
C17_Witness ==
    /\ rq.pc = "done"
    /\ rq.sentErrs = <<ErrCtx>>
    /\ rq.observed = ErrCtx
    /\ rq.got # <<>>

\* C18: a one-shot query with a string prompt and a permission callback
\* sends exactly one error, closes the messages channel without a message,
\* launches no child, starts no handler and writes nothing.
C18_FailsEarly ==
    (rq.pc # "none" /\ rq.mode = "prompt" /\ hasCanUseTool) =>
        /\ ~rq.connected
        /\ rpc = "unstarted" /\ stdin = <<>> /\ decoded = <<>>
        /\ DOMAIN pendingRequests = {} /\ requestCounter = 0
        /\ rq.forwarded = <<>> /\ rq.got = <<>>
        /\ rq.pc # "begin" => rq.sentErrs = <<ErrStreamingRequired>>
        /\ rq.pc \in {"begin", "closeErrs", "closeMsgs", "done"}
        /\ rq.observed # "unread" => rq.observed = ErrStreamingRequired

\* the query has ended and its caller has read the error
C18_Witness ==
    /\ rq.pc = "done" /\ rq.mode = "prompt" /\ hasCanUseTool
    /\ rq.outClosed /\ rq.errsClosed
    /\ rq.observed = ErrStreamingRequired

\* ------------------------------------------------------------- ClaudeClient
ReceiveCalls == {r \in {cl.recv, cl.prev} : r.pc # "none" /\ r.connected}

\* C19: a ReceiveResponse call forwards the messages it takes from the
\* handler's channel in order, up to and including the first result, and
\* then closes its output; it takes nothing after that result, so what
\* follows stays in the handler's channel for the next call.  A call that
\* ends without an error ends at a result (ReceiveResponse) or when the
\* handler's channel is closed and empty (both).
C19_State ==
    /\ \A r \in ReceiveCalls :
          /\ IsPrefix(r.out, r.taken)
          /\ Len(r.taken) <= Len(r.out) + 1
          /\ r.kind = "ReceiveResponse" =>
                /\ \A i \in 1..Len(r.out) - 1 : r.out[i].type # "result"
                /\ (r.out # <<>> /\ r.out[Len(r.out)].type = "result") =>
                      /\ r.pc \in {"closing", "done"}
                      /\ r.taken = r.out
                      /\ r.err = NoErr
                /\ (r.outClosed /\ r.err = NoErr) =>
                      \/ r.out # <<>> /\ r.out[Len(r.out)].type = "result"
                      \/ msgChanClosed /\ msgChan = <<>> /\ r.taken = r.out
          /\ (r.kind = "ReceiveMessages" /\ r.outClosed /\ r.err = NoErr) =>
                (msgChanClosed /\ msgChan = <<>> /\ r.taken = r.out)
    /\ (cl.pc # "none" /\ cl.calls > 0) =>
          cl.takenBefore \o cl.recv.taken \o msgChan = delivered

\* a ReceiveResponse call ended at the result; the message that followed it
\* was received by the next call
C19_Witness ==
    /\ cl.prev.kind = "ReceiveResponse" /\ cl.prev.connected
    /\ Len(cl.prev.out) = 1 /\ cl.prev.out[1].type = "result"
    /\ cl.prev.outClosed
    /\ Len(cl.recv.out) = 1 /\ cl.recv.out[1].type = "assistant"
    /\ delivered = cl.prev.out \o cl.recv.out

\* C20, as stated: while no Connect has succeeded, every operation of the
\* client returns the not-connected error, a receive call closes its channel
\* without a message, and nothing but Connect's own initialize request is
\* sent to the agent.
C20_AsStated ==
    (cl.pc # "none" /\ ~Connected) =>
        /\ cl.last.op # "none" => cl.last.result = ErrNotConnected
        /\ call["c2"].pc = "idle"
        /\ \A i \in 1..Len(stdin) :
              stdin[i].kind = "control_request" /\ stdin[i].sub = "initialize"
        /\ cl.recv.pc # "none" =>
              /\ cl.recv.out = <<>> /\ cl.recv.taken = <<>>
              /\ (cl.recv.pc = "done" => cl.recv.err = ErrNotConnected)

\* C20, while c.query is nil (Connect was not called, rejected the options,
\* or could not start the transport): every operation is refused and nothing
\* is sent
C20_NoHandler ==
    (cl.pc # "none" /\ ~cl.query) =>
        /\ cl.last.op # "none" => cl.last.result = ErrNotConnected
        /\ call["c2"].pc = "idle"
        /\ stdin = <<>>
        /\ cl.recv.pc # "none" =>
              /\ cl.recv.out = <<>> /\ cl.recv.taken = <<>>
              /\ (cl.recv.pc = "done" => cl.recv.err = ErrNotConnected)

\* Connect failed at initialize, and a Query after it wrote its message
C20_Sent ==
    /\ cl.pc = "failed" /\ cl.query
    /\ cl.last.op = "Query" /\ cl.last.result = NoErr
    /\ Len(stdin) = 2 /\ stdin[2].kind = "user"

\* --------------------------------------------------- subprocessTransport.Write
ReturnedWrites == {w \in Writers : tp.w[w].pc = "done"}
PiecesOf(w) == {i \in 1..Len(tp.wire) : tp.wire[i].w = w /\ tp.wire[i].n = tp.w[w].n}
Refused(w) == ~tp.w[w].sawReady \/ ~tp.w[w].sawStdin \/ tp.w[w].sawErr # NoErr

\* C21, as stated: a Write that finds the transport not ready, stdin closed
\* or a terminal error stored returns an error and writes no byte; every
\* other Write writes the whole line.
C21_AsStated ==
    \A w \in ReturnedWrites :
        IF Refused(w)
        THEN tp.w[w].result # NoErr /\ PiecesOf(w) = {}
        ELSE tp.w[w].result = NoErr /\ Cardinality(PiecesOf(w)) = PiecesPerLine

\* C21, amended: a Write that finds the transport not ready, stdin closed or
\* a terminal error stored returns an error and writes no byte; every other
\* Write either writes the whole line and returns no error, or fails in the
\* write to the pipe, returns an error and leaves the transport not ready.
C21_Write ==
    \A w \in ReturnedWrites :
        IF Refused(w)
        THEN tp.w[w].result # NoErr /\ PiecesOf(w) = {}
        ELSE \/ tp.w[w].result = NoErr /\ Cardinality(PiecesOf(w)) = PiecesPerLine
             \/ /\ tp.w[w].result = ErrStdin
                /\ Cardinality(PiecesOf(w)) < PiecesPerLine
                /\ ~ready

\* a Write wrote its whole line, and a later Write, made after EndInput on a
\* ready transport without a stored error, was refused and wrote nothing
C21_Witness ==
    /\ tp.pc = "connected"
    /\ tp.w["w1"].pc = "done" /\ tp.w["w1"].result = NoErr
    /\ Cardinality(PiecesOf("w1")) = PiecesPerLine
    /\ tp.w["w2"].pc = "done" /\ tp.w["w2"].n > tp.w["w1"].n
    /\ tp.w["w2"].sawReady /\ ~tp.w["w2"].sawStdin /\ tp.w["w2"].sawErr = NoErr
    /\ tp.w["w2"].result = ErrNotReady
    /\ Len(tp.wire) = PiecesPerLine

\* ------------------------------------------------ subprocessTransport.EndInput
EndInputStep == tp.pc # "none" /\ tp'.ends = tp.ends + 1

C22_State ==
    tp.pc # "none" =>
        /\ tp.pipeCloses <= 1
        /\ endInputs <= 1
        /\ (tp.lastEnd.n > 0 /\ ~tp.lastEnd.hadStdin) => tp.lastEnd.result = NoErr
        /\ tp.lastEnd.afterClose => ~tp.lastEnd.hadStdin

C22_Step ==
    EndInputStep =>
        IF stdinOpen
        THEN ~stdinOpen' /\ tp'.pipeCloses = tp.pipeCloses + 1
        ELSE /\ UNCHANGED transportVars
             /\ tp'.pipeCloses = tp.pipeCloses
             /\ tp'.lastEnd.result = NoErr

\* C22: the EndInput that finds the child's stdin open closes it; every
\* later EndInput, and every EndInput after Close, returns no error and
\* changes nothing in the transport; the pipe is never closed twice.
C22_Idempotent == []C22_State /\ [][C22_Step]_vars

\* a second EndInput was a no-op after the first had closed the pipe
C22_Witness ==
    /\ tp.pc = "connected" /\ ~tp.closed
    /\ tp.ends = 2 /\ tp.lastEnd.n = 2 /\ ~tp.lastEnd.hadStdin
    /\ tp.pipeCloses = 1 /\ endInputs = 1

\* an EndInput after Close was a no-op
C22_AfterClose ==
    /\ tp.pc = "connected" /\ tp.closed
    /\ tp.lastEnd.n > 0 /\ tp.lastEnd.afterClose /\ tp.lastEnd.result = NoErr
    /\ tp.pipeCloses = 1 /\ endInputs = 0

\* ------------------------------------------------------ the lines on the pipe
SameCall(a, b) == a.w = b.w /\ a.n = b.n

\* C26: whatever goroutines call Write concurrently, the pieces of one line
\* lie on the pipe next to each other and in order: no piece of another line
\* falls between them, and a line that was begun is followed only by its own
\* remaining pieces.
C26_Whole ==
    tp.pc # "none" =>
        \A i \in 1..Len(tp.wire) :
            /\ tp.wire[i].part > 1 =>
                  /\ i > 1
                  /\ SameCall(tp.wire[i-1], tp.wire[i])
                  /\ tp.wire[i-1].part = tp.wire[i].part - 1
            /\ (tp.wire[i].part < PiecesPerLine /\ i < Len(tp.wire)) =>
                  /\ SameCall(tp.wire[i+1], tp.wire[i])
                  /\ tp.wire[i+1].part = tp.wire[i].part + 1

\* a second writer called Write while the first held the lock half-way
\* through its line, and both lines are on the pipe
C26_Witness ==
    /\ tp.pc = "connected"
    /\ Len(tp.wire) = 2 * PiecesPerLine
    /\ ~SameCall(tp.wire[1], tp.wire[Len(tp.wire)])
    /\ tp.wire[1].w # tp.wire[Len(tp.wire)].w
    /\ \A w \in Writers : tp.w[w].pc = "done" /\ tp.w[w].result = NoErr

\* ------------------------------------------------- the decoder of the reader
Fate == dec.last.out

\* C23, as stated: an object of exactly t.maxBufferSize bytes on one line
\* is emitted; an accumulation one byte longer ends the reader with a decode
\* error that carries the accumulated bytes, stored and signalled, and the
\* object is not emitted.
C23_AsStated ==
    dec.pc # "none" =>
        /\ (/\ Fate # "none" /\ dec.last.buf = <<>>
            /\ dec.last.line = ObjectOf(dec.max)) =>
              /\ Fate = "emitted"
              /\ dec.emitted # <<>>
              /\ dec.emitted[Len(dec.emitted)] = dec.last.line
              /\ exitErr = NoErr
        /\ (/\ Fate # "none"
            /\ dec.last.line \in {ObjectOf(dec.max + 1), OpenOf(dec.max + 1)}) =>
              /\ Fate \in {"overflow", "toolong"}
              /\ exitErr \in {ErrOverflow, ErrScan}
              /\ tpc # "running"
              /\ tErrs = <<exitErr>> \/ tErrsClosed
              /\ dec.errLine = dec.jsonBuffer
              /\ \A i \in 1..Len(dec.emitted) : dec.emitted[i] # dec.last.line

\* C23, where it holds: with t.maxBufferSize below the capacity of the
\* scanner's buffer an object of exactly that size is emitted; whatever the
\* size, a buffer that grows past it ends the reader with the overflow error
\* carrying the buffer, and what it held is never emitted.
C23_BelowScanner ==
    dec.pc # "none" =>
        /\ (/\ dec.max < ScanCap /\ Fate # "none" /\ dec.last.buf = <<>>
            /\ dec.last.line = ObjectOf(dec.max)) =>
              /\ Fate = "emitted"
              /\ dec.emitted[Len(dec.emitted)] = dec.last.line
        /\ Fate = "overflow" =>
              /\ Len(dec.jsonBuffer) > dec.max
              /\ exitErr = ErrOverflow /\ dec.errLine = dec.jsonBuffer
              /\ tpc # "running" /\ dec.pc = "done"
              /\ \A i \in 1..Len(dec.emitted) : dec.emitted[i] # dec.jsonBuffer
        /\ \A i \in 1..Len(dec.emitted) : Len(dec.emitted[i]) <= dec.max

\* the default case, the maximum not below the scanner's buffer: an object
\* of exactly the maximum, alone on a line, ended the reader with the
\* scanner's error and was not emitted
C23_TooLong ==
    /\ dec.pc = "done" /\ dec.max >= ScanCap
    /\ dec.last.line = ObjectOf(dec.max) /\ dec.last.buf = <<>>
    /\ Fate = "toolong"
    /\ exitErr = ErrScan /\ dec.emitted = <<>>
    /\ tMsgsClosed

\* what a line adds to the buffer it meets: the line without the white
\* space around it and, for an empty buffer, without what precedes its
\* first brace
Payload(buf, line) ==
    LET t == TrimSpace(line) IN
      IF buf # <<>> \/ IndexBrace(t) <= 0 THEN t ELSE TrimSpace(From(t, IndexBrace(t)))

HasBrace(line) == \E i \in 1..Len(line) : line[i] = "{"

C24_State ==
    (dec.pc # "none" /\ Fate \notin {"none", "toolong"}) =>
        LET buf == dec.last.buf
            line == dec.last.line
            acc == buf \o Payload(buf, line)
            blank == TrimSpace(line) = <<>>
            noJson == buf = <<>> /\ ~blank /\ ~HasBrace(line)
        IN /\ (Fate = "blank") = blank
           /\ (Fate = "skipped") = noJson
           /\ Fate \in {"blank", "skipped"} => dec.jsonBuffer = buf
           /\ (Fate = "emitted") =
                 (~blank /\ ~noJson /\ Len(acc) <= dec.max /\ ParsesAsObject(acc))
           /\ Fate = "emitted" =>
                 /\ dec.jsonBuffer = <<>>
                 /\ dec.emitted # <<>> /\ dec.emitted[Len(dec.emitted)] = acc
           /\ Fate = "accumulated" =>
                 /\ dec.jsonBuffer = acc /\ ~ParsesAsObject(acc)
           /\ \A i \in 1..Len(dec.emitted) :
                 /\ ParsesAsObject(dec.emitted[i])
                 /\ dec.emitted[i][1] = "{"

C24_Step ==
    (dec.pc # "none" /\ dec'.emitted # dec.emitted) =>
        /\ Len(dec'.emitted) = Len(dec.emitted) + 1
        /\ SubSeq(dec'.emitted, 1, Len(dec.emitted)) = dec.emitted
        /\ dec'.last.out = "emitted"
        /\ dec'.jsonBuffer = <<>>

\* C24: a blank line is passed over; with an empty buffer a line without a
\* brace is skipped and what precedes the first brace of a line is dropped;
\* every other line is appended to the buffer; when the buffer parses as an
\* object exactly one message, the buffer, is emitted and the buffer is
\* emptied, otherwise the buffer is kept.
C24_Decoder == []C24_State /\ [][C24_Step]_vars

\* a prelude line without a brace, then an object line: the object alone
\* was emitted, without an error
C24_Witness ==
    /\ dec.pc = "scan" /\ dec.lines = 2 /\ dec.skips = 1
    /\ Fate = "emitted" /\ dec.last.buf = <<>>
    /\ dec.emitted = <<dec.last.line>>
    /\ exitErr = NoErr /\ tErrs = <<>>

\* an object printed on two lines was emitted when the second arrived
C24_Fragments ==
    /\ dec.pc = "scan" /\ dec.lines = 2
    /\ Fate = "emitted" /\ dec.last.buf # <<>>
    /\ dec.emitted = <<dec.last.buf \o dec.last.line>>
    /\ exitErr = NoErr

\* ------------------------------------------------------ McpServer.HandleRequest
Served == mcp.pc = "answered" /\ mcp.served # ""

\* what the claim says of the response but for its id
ResponseShape(m, r) ==
    /\ r.jsonrpc = "2.0" /\ "jsonrpc" \in r.keys
    /\ ("result" \in r.keys) # ("error" \in r.keys)
    /\ m.method \in {"initialize", "tools/list", "notifications/initialized"} =>
          "result" \in r.keys
    /\ m.method = "tools/call" =>
          IF m.tool \notin ToolsOf(mcp.served)
          THEN "error" \in r.keys /\ r.code = -32601 /\ mcp.called = "none"
          ELSE IF mcp.called = "err"
          THEN "error" \in r.keys /\ r.code = -32603 /\ r.message = <<"tool failed">>
          ELSE "result" \in r.keys /\ mcp.called \in {"ok", "is_error"}
    /\ m.method \notin {"initialize", "tools/list", "notifications/initialized",
                        "tools/call"} =>
          "error" \in r.keys /\ r.code = -32601

\* the id of the request is the id of the response, an absent id being null
\* or absent in the response
EchoesId(m, r) ==
    \/ "id" \in r.keys /\ r.id = m.id
    \/ "id" \notin r.keys /\ m.id = "null"

\* C25, as stated: every response of HandleRequest has jsonrpc "2.0", the
\* id of the request and exactly one of result and error, and the result or
\* the error code the claim names for each method.
C25_AsStated ==
    Served => /\ ResponseShape(mcp.request.message, mcp.answer)
              /\ EchoesId(mcp.request.message, mcp.answer)

\* C25, amended: every response of HandleRequest has jsonrpc "2.0" and
\* exactly one of result and error, with the result or the error code the
\* claim names for each method; it carries the id of the request, except the
\* response to notifications/initialized, which carries no id whatever the
\* request held.
C25_Response ==
    Served => /\ ResponseShape(mcp.request.message, mcp.answer)
              /\ IF mcp.request.message.method = "notifications/initialized"
                 THEN "id" \notin mcp.answer.keys
                 ELSE "id" \in mcp.answer.keys
                      /\ mcp.answer.id = mcp.request.message.id

\* a tools/call whose handler failed was answered with error -32603 and the
\* id of the request
C25_Witness ==
    /\ Served
    /\ mcp.request.message.method = "tools/call" /\ mcp.called = "err"
    /\ mcp.request.message.id = "req-7"
    /\ mcp.answer.keys = {"jsonrpc", "id", "error"}
    /\ mcp.answer.code = -32603 /\ mcp.answer.id = "req-7"


\* ------------------------------------------------------------------- C27
\* the callers that have generated a request id
Registered == {c \in Callers : call[c].id # NoId}

\* the control_request lines written to the child's stdin
ControlRequestLines == {i \in DOMAIN stdin : stdin[i].kind = "control_request"}

\* C27 (state): the request ids of any two callers differ in their counter
\* part, and so do the ids of any two control_request lines written
C27_State ==
    /\ \A c, d \in Registered : c # d => call[c].id[1] # call[d].id[1]
    /\ \A i, j \in ControlRequestLines : i # j => stdin[i].rid[1] # stdin[j].rid[1]

\* C27 (step): the step in which a caller registers its request stores a
\* record under an id that had none, and leaves every other record as it was
C27_Step ==
    \A c \in Callers :
        (call[c].id = NoId /\ call'[c].id # NoId) =>
            /\ call'[c].id \notin DOMAIN pendingRequests
            /\ call'[c].id \in DOMAIN pendingRequests'
            /\ \A id \in DOMAIN pendingRequests :
                   /\ id \in DOMAIN pendingRequests'
                   /\ pendingRequests'[id] = pendingRequests[id]

\* C27: for callers issuing control requests concurrently on one handler the
\* generated request ids are pairwise distinct in their counter part, so no
\* registration overwrites another request's pending record
C27_Distinct == []C27_State /\ [][C27_Step]_vars

\* C27 witness: two callers have registered with the same random part while
\* both records are pending
C27_Witness ==
    \E c, d \in Registered :
        /\ c # d
        /\ call[c].id[2] = call[d].id[2]
        /\ {call[c].id, call[d].id} \subseteq DOMAIN pendingRequests
        /\ ~pendingRequests[call[c].id].done
        /\ ~pendingRequests[call[d].id].done


\* ------------------------------------------------------------------- C28
\* the control_response envelopes decoded for a request id, in arrival order
ResponsesFor(id) ==
    SelectSeq(decoded, LAMBDA e : e.type = "control_response" /\ e.rid = id)

\* the callers that returned what a control_response gave them
Answered == {c \in Callers : call[c].pc = "done"
                               /\ call[c].out \in {"success", "agent_error"}}

\* C28 as stated: a caller that returns on a control_response returns what
\* the first response for its request id carried (the record is in the table
\* from before the request is written until the caller returns, so the first
\* response decoded for the id is the one that fired the completion signal);
\* a later response with the same id changes neither result nor error
C28_AsStated ==
    \A c \in Answered :
        LET first == Head(ResponsesFor(call[c].id)) IN
          IF first.sub = "error"
          THEN call[c].out = "agent_error" /\ call[c].err = ErrAgent
          ELSE call[c].out = "success" /\ call[c].body = first

\* C28 witness: a request was answered with success, a second response with
\* the same id and subtype error followed before the caller woke, and the
\* caller returned the error
C28_Overwritten ==
    \E c \in Answered :
        /\ Len(ResponsesFor(call[c].id)) = 2
        /\ ResponsesFor(call[c].id)[1].sub = "success"
        /\ ResponsesFor(call[c].id)[2].sub = "error"
        /\ call[c].out = "agent_error"

\* C28 witness: a second response with the same id that arrives after the
\* caller returned finds no record and is discarded
C28_Discarded ==
    \E c \in Answered :
        /\ Len(ResponsesFor(call[c].id)) = 2
        /\ call[c].id \in hist.stale
        /\ call[c].body = ResponsesFor(call[c].id)[1]


\* ------------------------------------------------------------------- C29
\* the pending records no control_response has completed
Unanswered ==
    {id \in DOMAIN pendingRequests :
        pendingRequests[id].result = NoEnv /\ pendingRequests[id].err # ErrAgent}

\* the reader has left readMessages after the cancellation of its context,
\* with close() never called
CancelledOut == ctxCancelled /\ closes = 0 /\ rpc = "done"

\* the step in which the reader leaves its loop because its context is
\* cancelled, with close() never called: from the main select or from the
\* send of a message to the consumer
LeavesOnCancel ==
    /\ ctxCancelled
    /\ closes = 0
    /\ rpc \in {"select", "send"}
    /\ rpc' \in {"pushbg", "done"}

\* the step makes the handler terminal and fails every request that was
\* pending with err
FailsPending(err) ==
    /\ readErr' # NoErr
    /\ \A id \in DOMAIN pendingRequests :
           ~pendingRequests[id].done =>
               pendingRequests'[id].done /\ pendingRequests'[id].err = err

\* C29 as stated: when the handler's own context is cancelled (close() not
\* called), the handler becomes terminal and every pending control request
\* fails with the "handler closed" error
C29_AsStated == [][LeavesOnCancel => FailsPending(ErrClosed)]_vars

\* C29, with the error the ctx.Done() case stores (ctx.Err()) in place of
\* "handler closed": the handler becomes terminal and every pending control
\* request fails with the context's error
C29_WithCtxError == [][LeavesOnCancel => FailsPending(ErrCtx)]_vars

\* C29 witness: the reader took the ctx.Done() case of its main select, and a
\* caller's pending request failed with the context's error, not with
\* "handler closed"
C29_CtxError ==
    /\ CancelledOut
    /\ readErr = ErrCtx
    /\ \E c \in Callers : call[c].out = "terminal" /\ call[c].err = ErrCtx

\* C29 witness: the reader was blocked sending a message to the consumer when
\* the context was cancelled and returned from there; the handler is not
\* terminal and a caller still waits on a pending request nobody failed
C29_Stranded ==
    /\ CancelledOut
    /\ readErr = NoErr
    /\ \E c \in Callers :
          /\ call[c].pc = "wait"
          /\ call[c].id \in Unanswered
          /\ ~pendingRequests[call[c].id].done


\* ------------------------------------------------------------------- C30
\* one of the three events after which a callback-bearing session may end
\* its input: the first result, the stream-close timeout, the cancellation
MayEndInput == firstResult \/ streamTimer \/ ctxCancelled

\* C30 as stated: in a one-shot query with a string prompt and hooks or an
\* in-process tool server registered, EndInput has not closed the child's
\* stdin before the first result was observed, the stream-close timeout
\* elapsed or the context was cancelled
C30_AsStated ==
    (rq.pc # "none" /\ rq.mode = "prompt" /\ (hasHooks \/ hasServers)) =>
        (endInputs > 0 => MayEndInput)

\* C30 witness: hooks are registered, the prompt was written and EndInput
\* closed stdin right after it; no result has been observed, no timer has
\* run and the context is not cancelled
C30_ClosedEarly ==
    /\ rq.pc = "loop" /\ rq.mode = "prompt"
    /\ hasHooks
    /\ endInputs = 1 /\ ~stdinOpen
    /\ stdin # <<>> /\ stdin[Len(stdin)].kind = "user"
    /\ ~MayEndInput


\* ------------------------------------------------------------------- C31
\* the readers launched so far
Launched == {r \in 1..MaxStarts : st.reader[r] # "none"}

\* C31 as stated: however often start() is called on a handler, before or
\* after close(), at most one reader runs over the handler's lifetime and the
\* conversation-message channel is closed exactly once (no second close is
\* attempted)
C31_AsStated ==
    st.pc # "none" => (Cardinality(Launched) <= 1 /\ ~st.panicked)

\* C31 witness: start() was called twice, both readers returned, and the
\* second close of the conversation-message channel panicked
C31_ClosedTwice ==
    /\ st.starts = 2
    /\ \A r \in Launched : st.reader[r] = "returned"
    /\ st.chanCloses = 1
    /\ st.panicked

\* C31 witness: two readers of one handler each received a message of the
\* transport
C31_TwoReaders ==
    \E i, j \in DOMAIN st.took : st.took[i][2] # st.took[j][2]

\* C31 witness: a start() after close() launched a reader whose context
\* close() never cancels
C31_AfterClose ==
    /\ st.afterClose
    /\ st.pc = "closed"
    /\ \E r \in Launched : st.reader[r] = "select" /\ ~StCtxDone(r)


\* ------------------------------------------------------------------- C32
\* the transport has queued its n-th envelope
Queued(n) == Len(decoded) >= n

\* the reader has dealt with the n-th envelope: it is back at its select, a
\* conversation message was sent on the message channel, and the dispatcher
\* of a control request was launched
Handled(n) ==
    /\ Len(consumed) >= n
    /\ ~(rpc # "select" /\ rcur.n = n)
    /\ decoded[n].type \in ConvTypes =>
           \E i \in DOMAIN delivered : delivered[i].n = n
    /\ decoded[n].type = "control_request" => disp[n].pc # "none"

\* a host callback invoked for an inbound control request has not returned
CallbackRunning == \E n \in 1..MaxInbound : disp[n].pc = "running"

\* C32: the reader does not wait for host callbacks: with a callback that may
\* never return, every envelope the transport queues is dealt with (later
\* conversation messages are delivered, control responses complete their
\* requests, further dispatchers are launched)
C32_Progress == \A n \in 1..MaxInbound : Queued(n) ~> Handled(n)

\* C32 witness: the callback of the first envelope is still running and the
\* conversation message that followed it has been delivered
C32_Witness ==
    /\ disp[1].pc = "running"
    /\ Len(decoded) = 2 /\ decoded[2].type \in ConvTypes
    /\ \E i \in DOMAIN delivered : delivered[i].n = 2

\* C32 witness: the callback of the first envelope is still running and the
\* control response that followed it completed a pending control request
C32_Completed ==
    /\ disp[1].pc = "running"
    /\ Len(decoded) = 2 /\ decoded[2].type = "control_response"
    /\ call["c1"].pc = "done" /\ call["c1"].out = "success"
    /\ call["c1"].body = decoded[2]

\* C32 witness: two callbacks run at once
C32_TwoCallbacks == disp[1].pc = "running" /\ disp[2].pc = "running"


\* ------------------------------------------------------------------- C33
\* the exit error is stored and signalled, at most once, before any channel
\* is closed, and nothing is stored or signalled afterwards
SignalledOnce ==
    /\ tErrs \in {<<>>, <<exitErr>>}
    /\ tErrs # <<>> => exitErr # NoErr
    /\ (tErrsClosed \/ tMsgsClosed) =>
           /\ tpc \in {"errclosed", "exited"}
           /\ exitErr # NoErr => tErrs = <<exitErr>>
    /\ dec.last.out \in {"overflow", "toolong"} /\ tpc # "running" => exitErr # NoErr

\* C33 as stated: the error is stored and signalled, then the messages
\* channel is closed, then the errors channel
C33_AsStated == SignalledOnce /\ (tErrsClosed => tMsgsClosed)

\* C33 (state): the errors channel is closed before the messages channel
C33_State == SignalledOnce /\ (tMsgsClosed => tErrsClosed)

\* C33 (step): each channel is closed in a step of its own, the errors
\* channel after the signal and the messages channel after the errors
\* channel; once a channel is closed the stored error and the signal stay
C33_Step ==
    /\ (~tErrsClosed /\ tErrsClosed') => (tpc = "signalled" /\ ~tMsgsClosed')
    /\ (~tMsgsClosed /\ tMsgsClosed') => (tErrsClosed /\ tpc = "errclosed")
    /\ tErrsClosed => (exitErr' = exitErr /\ tErrs' = tErrs)

\* C33: on exit of the transport's reader the exit error, if any, is stored
\* and signalled on Errors() at most once; then the errors channel is closed;
\* then the messages channel is closed
C33_Order == []C33_State /\ [][C33_Step]_vars

\* C33 witness: the reader ended with a decode error; the error is stored and
\* queued once on Errors(), and both channels are closed
C33_Witness ==
    /\ tpc = "exited" /\ tErrsClosed /\ tMsgsClosed
    /\ dec.last.out \in {"overflow", "toolong"}
    /\ exitErr # NoErr /\ tErrs = <<exitErr>>

\* C33 witness: the errors channel is closed while the messages channel is
\* still open
C33_ErrorsFirst == tErrsClosed /\ ~tMsgsClosed /\ exitErr # NoErr


\* ------------------------------------------------------------------- C34
\* the errors a fatal event can hand to setReadError in the current state
FatalErrors ==
    ((IF tErrs # <<>> THEN {Head(tErrs)} ELSE {}) \cup {exitErr, ErrCtx}) \ {NoErr}

\* C34 (state): while the reader pushes the error envelope of a fatal event
\* the terminal error is set
C34_State == rpc \in {"push", "pushbg"} => readErr # NoErr

\* C34 (step): the terminal error is set only by a fatal step of the reader
\* (an error of the transport, its messages closed with a stored error, the
\* cancellation of the reader's context) to the error of that event, and
\* once set it never changes
C34_Step ==
    /\ readErr # NoErr => readErr' = readErr
    /\ (readErr = NoErr /\ readErr' # NoErr) =>
           /\ rpc = "select" /\ rpc' \in {"push", "pushbg"}
           /\ readErr' \in FatalErrors

\* C34: the handler's terminal error cell is write-once: the first fatal
\* event sets it and nothing that follows (fatal events, cancellations,
\* close calls) changes it
C34_WriteOnce == []C34_State /\ [][C34_Step]_vars

\* C34 witness: the cancellation of the context set the terminal error; the
\* transport then failed with another error and close() was called, and the
\* cell still holds the first error
C34_Witness ==
    /\ readErr = ErrCtx
    /\ exitErr # NoErr /\ exitErr # ErrCtx /\ tpc = "exited"
    /\ closed
    /\ rpc = "done"


\* ------------------------------------------------------------------- C35
\* a success control_response was accepted for the pending request id: its
\* completion signal fired and its body is recorded
SuccessRecorded(id) ==
    /\ pendingRequests[id].done
    /\ pendingRequests[id].err = NoErr
    /\ pendingRequests[id].result # NoEnv

\* C35 as stated: once a success response is recorded for a pending request,
\* no step that fails the pending requests (the terminal transition of the
\* reader, close()) replaces that outcome: the record keeps its body and
\* stays without error until its caller takes it
C35_AsStated ==
    [][\A id \in DOMAIN pendingRequests \cap DOMAIN pendingRequests' :
          (SuccessRecorded(id) /\ rpc # "handle") =>
              /\ pendingRequests'[id].err = NoErr
              /\ pendingRequests'[id].result = pendingRequests[id].result]_vars

\* C35 witness: the request of a caller was already completed when close()
\* failed the pending requests (it is not among those close() found
\* incomplete), and the caller returned the "query handler closed" error
C35_Replaced ==
    \E c \in Callers :
        /\ call[c].pc = "done"
        /\ call[c].out = "terminal" /\ call[c].err = ErrClosed
        /\ call[c].id \notin hist.atClose
        /\ Len(ResponsesFor(call[c].id)) = 1
        /\ ResponsesFor(call[c].id)[1].sub = "success"


\* ------------------------------------------------------------------- C36
\* the callers whose pre-check ran before any close() had returned and who
\* now wait in the select of sendControlRequest
Waiting == {c \in Callers : call[c].pc = "wait" /\ ~call[c].afterClose}

\* C36 as stated: once the reader has returned (after close() or a terminal
\* transition) no caller that passed the pre-check is left waiting on a
\* request nobody completed: its request was failed with the others, or the
\* call returned an error without waiting
C36_AsStated ==
    \A c \in Waiting :
        rpc = "done" => pendingRequests[call[c].id].done

\* C36 witness: close() has failed the pending requests, joined the reader
\* and returned; a caller that had passed the pre-check registered and wrote
\* its request in between, and waits on a record that close() never saw
C36_Stranded ==
    \E c \in Waiting :
        /\ rpc = "done" /\ closed /\ closes = 1 /\ cpc = "idle"
        /\ readErr = NoErr
        /\ call[c].id \notin hist.atClose
        /\ ~pendingRequests[call[c].id].done
        /\ call[c].id \in WrittenIds

\* C36 witness (under SpecFail): the reader made its terminal transition and
\* returned; a
\* caller that had passed the pre-check registered afterwards and waits on a
\* record the transition never failed
C36_StrandedByFailure ==
    \E c \in Waiting :
        /\ rpc = "done" /\ ~closed /\ readErr # NoErr
        /\ ~pendingRequests[call[c].id].done
        /\ call[c].id \in WrittenIds


\* ------------------------------------------------------------------- C37
\* the handler sent its synthetic error envelope for an error of the
\* transport, with neither close() nor a cancellation involved
TransportErrorDelivered ==
    /\ Synthetic(delivered) # <<>>
    /\ ~closed /\ ~ReaderCtxDone

\* C37 as stated: when the synthetic error envelope of a transport error is
\* on the message channel, every conversation message the transport had
\* decoded and queued (all of them precede its error signal) was delivered
\* before it
C37_AsStated ==
    TransportErrorDelivered => FromTransport(delivered) = Conversation(decoded)

\* C37 witness: the reader took the error from Errors() while a conversation
\* message was still queued on Messages(); it sent the error envelope and
\* returned, and the message stays undelivered
C37_Dropped ==
    /\ TransportErrorDelivered
    /\ ErrorRead /\ EndsWithErrorEnvelope
    /\ rpc = "done"
    /\ Conversation(tMsgs) # <<>>


\* ------------------------------------------------------------------- C38
\* the step in which the reader finds the transport's messages channel
\* closed and empty with no error stored, and returns; the handler is
\* neither closed nor cancelled
CleanExit ==
    /\ rpc = "select" /\ rpc' = "done"
    /\ tMsgsClosed /\ tMsgs = <<>> /\ exitErr = NoErr
    /\ ~closed /\ ~ReaderCtxDone

\* C38 as stated: when the reader returns because the transport's messages
\* channel closed without a stored error, every control request still
\* pending is completed with an error
C38_AsStated ==
    [][CleanExit =>
          \A id \in DOMAIN pendingRequests :
              ~pendingRequests[id].done =>
                  pendingRequests'[id].done /\ pendingRequests'[id].err # NoErr]_vars

\* C38 witness: the child exited cleanly and the reader has returned; no
\* terminal error is stored, and a caller whose request was written still
\* waits on a record nobody completed
C38_Stranded ==
    /\ rpc = "done" /\ tpc = "exited" /\ exitErr = NoErr
    /\ ~closed /\ ~ctxCancelled
    /\ readErr = NoErr
    /\ \E c \in Callers :
          /\ call[c].pc = "wait"
          /\ call[c].id \in WrittenIds
          /\ ~pendingRequests[call[c].id].done


\* ------------------------------------------------------------------- C39
\* C39 as stated: an operation that runs concurrently with Close completes
\* against the live transport or handler or returns an error; it never uses
\* the reference after Close has cleared it
C39_AsStated == cc.pc # "none" => cc.op.out # "nil_dereference"

\* C39 witness: Query passed its test under the mutex, Close then cleared
\* c.transport, and the write went through the nil reference
C39_NilUse ==
    /\ cc.op.name = "Query" /\ cc.op.out = "nil_dereference"
    /\ cc.closed /\ cc.closes = 1 /\ cc.made = 1
    /\ cc.released = {1}

\* C39 witness: a control operation read c.query, Close cleared it, and the
\* call went through the nil reference
C39_NilControl ==
    /\ cc.op.name = "Interrupt" /\ cc.op.out = "nil_dereference"
    /\ cc.closed /\ cc.closes = 1 /\ cc.made = 1

\* ------------------------------------------------------------------- C40
\* the started pairs of transport and handler that no Close has closed
Live == cc.started \ cc.released

\* C40 as stated: whatever Connect and Close calls were made, every started
\* transport and handler not yet closed is the one the next Close closes: it
\* is held by the client's fields and the client is not marked closed
C40_AsStated ==
    cc.pc # "none" => \A id \in Live : id = cc.query /\ ~cc.closed

\* C40 witness: Connect was called twice; the transport and handler of the
\* first are started, not closed, and no longer held by the client
C40_Orphan ==
    /\ cc.made = 2 /\ cc.closes = 0
    /\ 1 \in Live /\ cc.query = 2

\* C40 witness: Connect after Close; the following Close returned at once
\* because c.closed was still set, and the started pair stays
C40_NotReleased ==
    /\ cc.closes = 2 /\ cc.closed
    /\ cc.query # 0 /\ cc.query \in Live

====
